---- MODULE Spec2Model ----
(***************************************************************************)
(* Model of the RFP Studio workflow engine (jgschmitz/Agentic_RFP):        *)
(*   - rfp_studio/workflow/states.py        the transition table           *)
(*   - rfp_studio/orchestrator/langgraph_flow.py  the pipeline and merge   *)
(*   - rfp_studio/agents/{sales,bdm,sme_router}.py  the pipeline's agents  *)
(*   - rfp_studio/agents/{writer,legal,quality}.py  the other batch agents *)
(* Timestamps (datetime.utcnow) and free text that no decision depends on  *)
(* are left out of the stored documents and of the events; of a record's   *)
(* metadata only the industry key is kept (rfp_size and tags are filled    *)
(* the same way).  The graph library is taken to run the nodes along the   *)
(* edges build_graph adds, handing the dict a node returns to the next     *)
(* node, and the settings are taken to hold the keys the agents'           *)
(* constructors require.                                                   *)
(***************************************************************************)
EXTENDS Integers, Sequences, FiniteSets, TLC

(***************************************************************************)
(* Generic helpers                                                         *)
(***************************************************************************)
Range(s) == {s[i] : i \in 1..Len(s)}

\* Python's None
None == "None"

(***************************************************************************)
(* rfp_studio/workflow/states.py                                           *)
(***************************************************************************)

\* class RFPStatus(str, Enum): the 13 members, in declaration order
RFPStatusMembers ==
    << "INITIATED", "LINKED_TO_RFP", "SALES_ASSEMBLY", "BDM_REVIEW",
       "RFP_BREAKDOWN", "SME_QA", "CONTENT_DRAFT", "LEGAL_REVIEW",
       "QUALITY_REVIEW", "FINAL_RFP", "APPROVED_BY_VP", "SUBMISSION_READY",
       "SUBMITTED" >>

RFPStatus == Range(RFPStatusMembers)

\* A mutant of the table: the last stage loops back to the first.
ALLOWED_TRANSITIONS_cyclic ==
    [s \in RFPStatus |->
        CASE s = "INITIATED"        -> << "LINKED_TO_RFP" >>
          [] s = "LINKED_TO_RFP"    -> << "SALES_ASSEMBLY" >>
          [] s = "SALES_ASSEMBLY"   -> << "BDM_REVIEW" >>
          [] s = "BDM_REVIEW"       -> << "RFP_BREAKDOWN" >>
          [] s = "RFP_BREAKDOWN"    -> << "SME_QA" >>
          [] s = "SME_QA"           -> << "CONTENT_DRAFT" >>
          [] s = "CONTENT_DRAFT"    -> << "LEGAL_REVIEW" >>
          [] s = "LEGAL_REVIEW"     -> << "QUALITY_REVIEW" >>
          [] s = "QUALITY_REVIEW"   -> << "FINAL_RFP" >>
          [] s = "FINAL_RFP"        -> << "APPROVED_BY_VP" >>
          [] s = "APPROVED_BY_VP"   -> << "SUBMISSION_READY" >>
          [] s = "SUBMISSION_READY" -> << "SUBMITTED" >>
          [] s = "SUBMITTED"        -> << "INITIATED" >>]

\* A mutant of the table: drafting is followed by quality review at once.
ALLOWED_TRANSITIONS_skip_legal ==
    [s \in RFPStatus |->
        CASE s = "INITIATED"        -> << "LINKED_TO_RFP" >>
          [] s = "LINKED_TO_RFP"    -> << "SALES_ASSEMBLY" >>
          [] s = "SALES_ASSEMBLY"   -> << "BDM_REVIEW" >>
          [] s = "BDM_REVIEW"       -> << "RFP_BREAKDOWN" >>
          [] s = "RFP_BREAKDOWN"    -> << "SME_QA" >>
          [] s = "SME_QA"           -> << "CONTENT_DRAFT" >>
          [] s = "CONTENT_DRAFT"    -> << "QUALITY_REVIEW" >>
          [] s = "LEGAL_REVIEW"     -> << "QUALITY_REVIEW" >>
          [] s = "QUALITY_REVIEW"   -> << "FINAL_RFP" >>
          [] s = "FINAL_RFP"        -> << "APPROVED_BY_VP" >>
          [] s = "APPROVED_BY_VP"   -> << "SUBMISSION_READY" >>
          [] s = "SUBMISSION_READY" -> << "SUBMITTED" >>
          [] s = "SUBMITTED"        -> << >>]

\* ALLOWED_TRANSITIONS: Dict[RFPStatus, List[RFPStatus]]
ALLOWED_TRANSITIONS ==
    [s \in RFPStatus |->
        CASE s = "INITIATED"        -> << "LINKED_TO_RFP" >>
          [] s = "LINKED_TO_RFP"    -> << "SALES_ASSEMBLY" >>
          [] s = "SALES_ASSEMBLY"   -> << "BDM_REVIEW" >>
          [] s = "BDM_REVIEW"       -> << "RFP_BREAKDOWN" >>
          [] s = "RFP_BREAKDOWN"    -> << "SME_QA" >>
          [] s = "SME_QA"           -> << "CONTENT_DRAFT" >>
          [] s = "CONTENT_DRAFT"    -> << "LEGAL_REVIEW" >>
          [] s = "LEGAL_REVIEW"     -> << "QUALITY_REVIEW" >>
          [] s = "QUALITY_REVIEW"   -> << "FINAL_RFP" >>
          [] s = "FINAL_RFP"        -> << "APPROVED_BY_VP" >>
          [] s = "APPROVED_BY_VP"   -> << "SUBMISSION_READY" >>
          [] s = "SUBMISSION_READY" -> << "SUBMITTED" >>
          [] s = "SUBMITTED"        -> << >>]

\* ALLOWED_TRANSITIONS.get(from_status, [])
TransitionsGet(from_status) ==
    IF from_status \in DOMAIN ALLOWED_TRANSITIONS
    THEN ALLOWED_TRANSITIONS[from_status]
    ELSE << >>

\* A mutant of can_transition: the membership test also accepts staying put.
can_transition_reflexive(from_status, to_status) ==
    \/ to_status \in Range(TransitionsGet(from_status))
    \/ (from_status \in RFPStatus /\ to_status = from_status)

\* def can_transition(from_status, to_status) -> bool
can_transition(from_status, to_status) ==
    to_status \in Range(TransitionsGet(from_status))

\* def get_next_valid_states(from_status) -> list[RFPStatus]
get_next_valid_states(from_status) ==
    TransitionsGet(from_status)

(***************************************************************************)
(* Identifiers.  A string is <<"str", n>>: n >= 1 stands for the 24-digit  *)
(* hexadecimal string of ObjectId number n, n = 0 for a string that is no  *)
(* ObjectId ("not-an-id"), n = -1 for the empty string.  An ObjectId is    *)
(* <<"ObjectId", n>>.  MongoDB matches _id by type and value, so a string  *)
(* never equals an ObjectId.                                               *)
(***************************************************************************)
NoneId == << "None", 0 >>
Str(n) == << "str", n >>
EmptyStr == Str(-1)
BadIdStr == Str(0)

\* Python truthiness of an Optional[str] identifier
IdTruthy(id) == id # NoneId /\ id # EmptyStr

\* bson.ObjectId(s) succeeds
ObjectIdValid(id) == id[1] = "str" /\ id[2] >= 1

\* bson.ObjectId(s), for a valid s
ObjectId(id) == << "ObjectId", id[2] >>

\* str(oid)
StrOfOid(oid) == << "str", oid[2] >>

\* insert_one on a collection whose documents carry no _id: the driver
\* generates a fresh ObjectId (documents are never deleted).
NewOid(coll) == << "ObjectId", Cardinality(DOMAIN coll) + 1 >>

\* Python truthiness of an Optional[str] payload value
Truthy(v) == v # None /\ v # ""

EmptyMap == [k \in {} |-> None]

(***************************************************************************)
(* rfp_studio/agents/base.py                                               *)
(***************************************************************************)

\* BaseAgentResult(success, message, changes, events, next_state)
BaseAgentResult(success, message, changes, events, next_state) ==
    [success |-> success, message |-> message, changes |-> changes,
     events |-> events, next_state |-> next_state]

\* BaseAgentResult(success=False, message=...): the defaults of the model
FailureResult(message) ==
    BaseAgentResult(FALSE, message, EmptyMap, EmptyMap, None)

(***************************************************************************)
(* rfp_studio/models/rfp.py, rfp_studio/models/task.py                     *)
(***************************************************************************)

\* class TaskType(str, Enum)
TaskType ==
    { "SALES_INTAKE", "BDM_REVIEW", "RFP_BREAKDOWN", "SME_QA", "SME_ANSWER",
      "CONTENT_DRAFT", "LEGAL_REVIEW", "QUALITY_REVIEW", "VP_APPROVAL",
      "SUBMISSION", "OTHER" }

\* class TaskStatus(str, Enum)
TaskStatus == { "PENDING", "IN_PROGRESS", "COMPLETED", "BLOCKED", "CANCELLED" }

\* RFP(...).model_dump(): the stored document of a record
RFPDoc(title, client, status, timeline, metadata) ==
    [title |-> title, client |-> client, status |-> status,
     timeline |-> timeline, tasks |-> << >>, history |-> << >>,
     metadata |-> metadata]

\* serialize_mongo_doc(doc): _id renamed to id, as a string
serialize_mongo_doc(oid, doc) ==
    [k \in DOMAIN doc \cup {"id"} |-> IF k = "id" THEN StrOfOid(oid) ELSE doc[k]]

(***************************************************************************)
(* rfp_studio/agents/sales.py                                              *)
(***************************************************************************)

\* A mutant of the intake check: only the title is required.
BuildNewRfpRaises_title_only(payload) ==
    ~Truthy(payload.title)

\* SalesAgent._build_new_rfp_model raises ValueError
BuildNewRfpRaises(payload) ==
    ~Truthy(payload.title) \/ ~Truthy(payload.client_name)

\* SalesAgent._build_new_rfp_model(payload), when it does not raise
build_new_rfp_model(payload) ==
    RFPDoc(payload.title,
           [name |-> payload.client_name, contact |-> payload.client_contact],
           "INITIATED",
           [received_date |-> payload.received_date,
            due_date |-> payload.due_date],
           [industry |-> payload.industry])

\* A mutant of the merge: client and timeline are rebuilt from the payload
\* alone.
SalesUpdates_replace(existing, payload) ==
    LET md == IF DOMAIN payload.metadata # {}
              THEN [metadata |-> payload.metadata]
              ELSE EmptyMap
        cl == IF Truthy(payload.client_name) \/ Truthy(payload.client_contact)
              THEN [client |-> [name |-> payload.client_name,
                                contact |-> payload.client_contact]]
              ELSE EmptyMap
        ti == IF Truthy(payload.title)
              THEN [title |-> payload.title]
              ELSE EmptyMap
        tl == IF Truthy(payload.received_date) \/ Truthy(payload.due_date)
              THEN [timeline |-> [received_date |-> payload.received_date,
                                  due_date |-> payload.due_date]]
              ELSE EmptyMap
    IN  md @@ cl @@ ti @@ tl

\* The $set document SalesAgent builds for an existing record
SalesUpdates(existing, payload) ==
    LET md == IF DOMAIN payload.metadata # {}
              THEN [metadata |->
                      [k \in DOMAIN existing.metadata \cup DOMAIN payload.metadata |->
                          IF k \in DOMAIN payload.metadata
                          THEN payload.metadata[k] ELSE existing.metadata[k]]]
              ELSE EmptyMap
        cl == IF Truthy(payload.client_name) \/ Truthy(payload.client_contact)
              THEN [client |->
                      [name |-> IF payload.client_name # None
                                THEN payload.client_name
                                ELSE existing.client.name,
                       contact |-> IF payload.client_contact # None
                                   THEN payload.client_contact
                                   ELSE existing.client.contact]]
              ELSE EmptyMap
        ti == IF Truthy(payload.title)
              THEN [title |-> payload.title]
              ELSE EmptyMap
        tl == IF Truthy(payload.received_date) \/ Truthy(payload.due_date)
              THEN [timeline |->
                      [received_date |-> IF payload.received_date # None
                                         THEN payload.received_date
                                         ELSE existing.timeline.received_date,
                       due_date |-> IF payload.due_date # None
                                    THEN payload.due_date
                                    ELSE existing.timeline.due_date]]
              ELSE EmptyMap
    IN  md @@ cl @@ ti @@ tl

\* update_one({"_id": key}, {"$set": updates}) on one document
SetFields(doc, updates) ==
    [k \in DOMAIN doc |-> IF k \in DOMAIN updates THEN updates[k] ELSE doc[k]]

\* SalesAgent.run(agent_input): the store afterwards and the result
SalesAgentRun(rfps, rfp_id, payload) ==
    IF rfp_id = NoneId
    THEN IF BuildNewRfpRaises(payload)
         THEN [rfps |-> rfps,
               result |-> FailureResult("SalesAgent failed to construct RFP")]
         ELSE LET oid == NewOid(rfps)
                  doc == build_new_rfp_model(payload)
                  new_id == StrOfOid(oid)
                  stored == [k \in DOMAIN rfps \cup {oid} |->
                                IF k = oid THEN doc ELSE rfps[k]]
              IN  [rfps |-> stored,
                   result |-> BaseAgentResult(
                       TRUE, "RFP created by SalesAgent.",
                       [rfp |-> serialize_mongo_doc(oid, stored[oid])],
                       [rfp_created |->
                           [type |-> "RFP_CREATED", rfp_id |-> new_id,
                            source_agent |-> "SALES_AGENT"]],
                       IF can_transition("INITIATED", "LINKED_TO_RFP")
                       THEN "LINKED_TO_RFP" ELSE None)]
    ELSE IF ~ObjectIdValid(rfp_id)
         THEN [rfps |-> rfps,
               result |-> FailureResult("Invalid rfp_id provided to SalesAgent")]
         ELSE IF ObjectId(rfp_id) \notin DOMAIN rfps
         THEN [rfps |-> rfps, result |-> FailureResult("No RFP found")]
         ELSE LET oid == ObjectId(rfp_id)
                  updates == SalesUpdates(rfps[oid], payload)
                  stored == [rfps EXCEPT ![oid] = SetFields(@, updates)]
              IN  IF DOMAIN updates = {}
                  THEN [rfps |-> rfps,
                        result |-> BaseAgentResult(
                            TRUE, "SalesAgent had no updates to apply.",
                            EmptyMap, EmptyMap, None)]
                  ELSE [rfps |-> stored,
                        result |-> BaseAgentResult(
                            TRUE, "RFP updated by SalesAgent.",
                            [rfp |-> serialize_mongo_doc(oid, stored[oid])],
                            [rfp_updated_by_sales |->
                                [type |-> "RFP_UPDATED_BY_SALES",
                                 rfp_id |-> rfp_id,
                                 source_agent |-> "SALES_AGENT"]],
                            None)]

(***************************************************************************)
(* rfp_studio/agents/bdm.py                                                *)
(***************************************************************************)

\* A mutant of the task built per section: a section without a title
\* yields no task.
SectionTasks_skip_untitled(rfp_id, section) ==
    IF Truthy(section.title)
    THEN << [rfp_id |-> rfp_id,
             type |-> IF Truthy(section.task_type) /\ section.task_type \in TaskType
                      THEN section.task_type ELSE "RFP_BREAKDOWN",
             status |-> "PENDING",
             title |-> section.title,
             assigned_to_team |-> section.suggested_team,
             metadata |-> [source |-> "BDMReviewAgent"]] >>
    ELSE << >>

\* The documents inserted for one section of the loop: the Task built from
\* the section (task_type falls back to RFP_BREAKDOWN, title to
\* "Untitled section").
SectionTasks(rfp_id, section) ==
    << [rfp_id |-> rfp_id,
        type |-> IF Truthy(section.task_type) /\ section.task_type \in TaskType
                 THEN section.task_type ELSE "RFP_BREAKDOWN",
        status |-> "PENDING",
        title |-> IF Truthy(section.title)
                  THEN section.title ELSE "Untitled section",
        assigned_to_team |-> section.suggested_team,
        metadata |-> [source |-> "BDMReviewAgent"]] >>

\* db.tasks.insert_one for each document of docs, in order:
\* the collection afterwards and the list of inserted ids
RECURSIVE InsertAll(_, _, _)
InsertAll(tasks, docs, ids) ==
    IF docs = << >>
    THEN [tasks |-> tasks, ids |-> ids]
    ELSE LET oid == NewOid(tasks)
         IN  InsertAll([k \in DOMAIN tasks \cup {oid} |->
                           IF k = oid THEN Head(docs) ELSE tasks[k]],
                       Tail(docs),
                       Append(ids, StrOfOid(oid)))

\* The for-loop of BDMReviewAgent.run over the sections
RECURSIVE CreateSectionTasks(_, _, _, _)
CreateSectionTasks(tasks, rfp_id, sections, ids) ==
    IF sections = << >>
    THEN [tasks |-> tasks, ids |-> ids]
    ELSE LET r == InsertAll(tasks, SectionTasks(rfp_id, Head(sections)), ids)
         IN  CreateSectionTasks(r.tasks, rfp_id, Tail(sections), r.ids)

\* A mutant of the references: they are listed last created first.
TaskRefs_reversed(ids) ==
    [i \in 1..Len(ids) |->
        [task_id |-> ids[Len(ids) + 1 - i], source |-> "BDMReviewAgent"]]

\* [{"task_id": tid, "source": "BDMReviewAgent"} for tid in created_task_ids]
TaskRefs(ids) ==
    [i \in 1..Len(ids) |-> [task_id |-> ids[i], source |-> "BDMReviewAgent"]]

\* BDMReviewAgent.run(agent_input): the stores afterwards and the result
BDMReviewAgentRun(rfps, tasks, rfp_id, payload) ==
    IF ~IdTruthy(rfp_id)
    THEN [rfps |-> rfps, tasks |-> tasks,
          result |-> FailureResult("BDMReviewAgent requires rfp_id.")]
    ELSE IF ~ObjectIdValid(rfp_id)
    THEN [rfps |-> rfps, tasks |-> tasks,
          result |-> FailureResult("Invalid rfp_id for BDMReviewAgent")]
    ELSE IF ObjectId(rfp_id) \notin DOMAIN rfps
    THEN [rfps |-> rfps, tasks |-> tasks,
          result |-> FailureResult("RFP not found for BDMReviewAgent")]
    ELSE IF payload.sections = << >>
    THEN [rfps |-> rfps, tasks |-> tasks,
          result |-> FailureResult("BDMReviewAgent payload missing 'sections'.")]
    ELSE LET oid == ObjectId(rfp_id)
             created == CreateSectionTasks(tasks, rfp_id, payload.sections, << >>)
             updated_tasks == rfps[oid].tasks \o TaskRefs(created.ids)
         IN  [rfps |-> [rfps EXCEPT ![oid].tasks = updated_tasks],
              tasks |-> created.tasks,
              result |-> BaseAgentResult(
                  TRUE, "BDMReviewAgent created tasks.",
                  [rfp_id |-> rfp_id, created_task_ids |-> created.ids],
                  [rfp_breakdown_created |->
                      [type |-> "RFP_BREAKDOWN_CREATED", rfp_id |-> rfp_id,
                       source_agent |-> "BDM_AGENT",
                       num_sections |-> Len(payload.sections),
                       task_ids |-> created.ids]],
                  IF can_transition("BDM_REVIEW", "RFP_BREAKDOWN")
                  THEN "RFP_BREAKDOWN" ELSE None)]

(***************************************************************************)
(* rfp_studio/agents/sme_router.py                                         *)
(* The embedding provider and the vector search are external: for each     *)
(* question an outcome [embed, search, results] says whether the embedding *)
(* call raised, whether the aggregate call raised, and the list of         *)
(* projected matches [kb_id, team_key, score] it returned.                 *)
(***************************************************************************)

\* (q.get("text") or "").strip(): a blank text strips to the empty string
StripText(text) == IF text \in {None, "", " "} THEN "" ELSE text

\* A mutant of the loop body: a match counts as carrying a team when any of
\* the returned results does.
QuestionStatus_any_team(tasks, q, o) ==
    IF ~IdTruthy(q.task_id) \/ StripText(q.text) = "" THEN "skip"
    ELSE IF o.embed = "fail" THEN "embedding_failed"
    ELSE IF o.search = "raise" THEN "raise"
    ELSE IF o.results = << >> THEN "no_match"
    ELSE IF \A j \in 1..Len(o.results) : ~Truthy(o.results[j].team_key)
         THEN "no_team_in_match"
    ELSE IF ~ObjectIdValid(q.task_id) THEN "invalid_task_id"
    ELSE IF ObjectId(q.task_id) \notin DOMAIN tasks THEN "task_not_found"
    ELSE "routed"

\* What one iteration of the loop does with question q under outcome o:
\* "skip" (continue without a detail entry), "raise" (the aggregate call
\* raised, outside any try), or the status of the detail entry appended.
QuestionStatus(tasks, q, o) ==
    IF ~IdTruthy(q.task_id) \/ StripText(q.text) = "" THEN "skip"
    ELSE IF o.embed = "fail" THEN "embedding_failed"
    ELSE IF o.search = "raise" THEN "raise"
    ELSE IF o.results = << >> THEN "no_match"
    ELSE IF ~Truthy(o.results[1].team_key) THEN "no_team_in_match"
    ELSE IF ~ObjectIdValid(q.task_id) THEN "invalid_task_id"
    ELSE IF ObjectId(q.task_id) \notin DOMAIN tasks THEN "task_not_found"
    ELSE "routed"

\* A mutant of the routing update: a completed work item keeps its status.
RouteTask_keep_completed(task, top_match) ==
    [task EXCEPT
        !.assigned_to_team = top_match.team_key,
        !.status = IF task.status = "COMPLETED" THEN "COMPLETED" ELSE "PENDING",
        !.metadata =
            [k \in DOMAIN task.metadata \cup {"sme_routing"} |->
                IF k = "sme_routing"
                THEN [source_agent |-> "SME_ROUTING_AGENT",
                      matched_kb_id |-> top_match.kb_id,
                      score |-> top_match.score]
                ELSE task.metadata[k]]]

\* task_collection.update_one({"_id": task_oid}, {"$set": {...}})
RouteTask(task, top_match) ==
    [task EXCEPT
        !.assigned_to_team = top_match.team_key,
        !.status = "PENDING",
        !.metadata =
            [k \in DOMAIN task.metadata \cup {"sme_routing"} |->
                IF k = "sme_routing"
                THEN [source_agent |-> "SME_ROUTING_AGENT",
                      matched_kb_id |-> top_match.kb_id,
                      score |-> top_match.score]
                ELSE task.metadata[k]]]

\* A mutant of the detail entry: an update that matched no work item is
\* reported as routed as well.
RoutingDetail_found(q, status, o) ==
    IF status \in { "routed", "task_not_found" }
    THEN [task_id |-> q.task_id, status |-> "routed",
          assigned_to_team |-> o.results[1].team_key,
          kb_match_id |-> o.results[1].kb_id,
          score |-> o.results[1].score]
    ELSE [task_id |-> q.task_id, status |-> status]

\* The detail entry appended to routing_details
RoutingDetail(q, status, o) ==
    IF status = "routed"
    THEN [task_id |-> q.task_id, status |-> status,
          assigned_to_team |-> o.results[1].team_key,
          kb_match_id |-> o.results[1].kb_id,
          score |-> o.results[1].score]
    ELSE [task_id |-> q.task_id, status |-> status]

\* The for-loop of SMERoutingAgent.run from question i on
RECURSIVE RouteQuestions(_, _, _, _, _, _)
RouteQuestions(tasks, questions, oracle, i, updated, details) ==
    IF i > Len(questions)
    THEN [tasks |-> tasks, updated |-> updated, details |-> details,
          raised |-> FALSE]
    ELSE LET q == questions[i]
             o == oracle[i]
             st == QuestionStatus(tasks, q, o)
         IN  CASE st = "skip" ->
                    RouteQuestions(tasks, questions, oracle, i + 1, updated, details)
               [] st = "raise" ->
                    [tasks |-> tasks, updated |-> updated, details |-> details,
                     raised |-> TRUE]
               [] st = "routed" ->
                    RouteQuestions(
                        [tasks EXCEPT ![ObjectId(q.task_id)] = RouteTask(@, o.results[1])],
                        questions, oracle, i + 1,
                        Append(updated, q.task_id),
                        Append(details, RoutingDetail(q, st, o)))
               [] OTHER ->
                    RouteQuestions(tasks, questions, oracle, i + 1, updated,
                                   Append(details, RoutingDetail(q, st, o)))

\* A mutant of the routing agent: a completed routing suggests SME_QA.
SMERoutingAgentRun_suggests(tasks, payload, oracle) ==
    IF payload.questions = << >>
    THEN [tasks |-> tasks, raised |-> FALSE,
          result |-> FailureResult("SMERoutingAgent payload missing 'questions'.")]
    ELSE LET r == RouteQuestions(tasks, payload.questions, oracle, 1, << >>, << >>)
         IN  [tasks |-> r.tasks, raised |-> r.raised,
              result |-> BaseAgentResult(
                  TRUE, "SMERoutingAgent processed questions.",
                  [updated_task_ids |-> r.updated],
                  [sme_routing_completed |->
                      [type |-> "SME_ROUTING_COMPLETED",
                       source_agent |-> "SME_ROUTING_AGENT",
                       num_questions |-> Len(payload.questions),
                       num_routed |-> Len(r.updated),
                       details |-> r.details]],
                  "SME_QA")]

\* SMERoutingAgent.run(agent_input): the task store afterwards, the result,
\* and whether the call raised instead of returning
SMERoutingAgentRun(tasks, payload, oracle) ==
    IF payload.questions = << >>
    THEN [tasks |-> tasks, raised |-> FALSE,
          result |-> FailureResult("SMERoutingAgent payload missing 'questions'.")]
    ELSE LET r == RouteQuestions(tasks, payload.questions, oracle, 1, << >>, << >>)
         IN  [tasks |-> r.tasks, raised |-> r.raised,
              result |-> BaseAgentResult(
                  TRUE, "SMERoutingAgent processed questions.",
                  [updated_task_ids |-> r.updated],
                  [sme_routing_completed |->
                      [type |-> "SME_ROUTING_COMPLETED",
                       source_agent |-> "SME_ROUTING_AGENT",
                       num_questions |-> Len(payload.questions),
                       num_routed |-> Len(r.updated),
                       details |-> r.details]],
                  None)]

(***************************************************************************)
(* rfp_studio/agents/writer.py, legal.py, quality.py                       *)
(* A batch item is a record with every key of the payload schema; an       *)
(* absent key holds None (an absent list the empty sequence).              *)
(***************************************************************************)

\* "$set": {"metadata.<key>": value}: one key of the nested document
SetMetadata(metadata, key, value) ==
    [k \in DOMAIN metadata \cup {key} |->
        IF k = key THEN value ELSE metadata[k]]

\* The loop's two guards: `if not task_id: continue` and
\* `try: ObjectId(task_id) except Exception: continue`
ItemSkipped(item) == ~IdTruthy(item.task_id) \/ ~ObjectIdValid(item.task_id)

\* A mutant of the match count: every update counts as matched.
ItemMatched_always(tasks, item) == TRUE

\* update_result.matched_count of update_one({"_id": ObjectId(task_id)}, ...)
ItemMatched(tasks, item) == ObjectId(item.task_id) \in DOMAIN tasks

\* The $set of WriterAgent.run on the matched task
DraftTask(task, item) ==
    [task EXCEPT
        !.status = "COMPLETED",
        !.metadata =
            SetMetadata(
                SetMetadata(task.metadata, "draft_content",
                            [template |-> item.content_type]),
                "writer_agent",
                [source_agent |-> "WRITER_AGENT",
                 content_type |-> item.content_type])]

\* The for-loop of WriterAgent.run from item i on
RECURSIVE DraftItems(_, _, _, _, _)
DraftItems(tasks, items, i, drafted, draft_results) ==
    IF i > Len(items)
    THEN [tasks |-> tasks, ids |-> drafted, results |-> draft_results]
    ELSE LET item == items[i]
         IN  IF ItemSkipped(item)
             THEN DraftItems(tasks, items, i + 1, drafted, draft_results)
             ELSE IF ItemMatched(tasks, item)
             THEN DraftItems(
                      [tasks EXCEPT ![ObjectId(item.task_id)] = DraftTask(@, item)],
                      items, i + 1,
                      Append(drafted, item.task_id),
                      Append(draft_results,
                             [task_id |-> item.task_id,
                              content_type |-> item.content_type,
                              status |-> "drafted"]))
             ELSE DraftItems(tasks, items, i + 1, drafted, draft_results)

\* WriterAgent.run(agent_input): the task store afterwards and the result
WriterAgentRun(tasks, rfp_id, items) ==
    IF items = << >>
    THEN [tasks |-> tasks,
          result |-> FailureResult("WriterAgent requires 'tasks' in payload.")]
    ELSE LET r == DraftItems(tasks, items, 1, << >>, << >>)
         IN  [tasks |-> r.tasks,
              result |-> BaseAgentResult(
                  TRUE, "WriterAgent drafted sections.",
                  [drafted_task_ids |-> r.ids],
                  [content_drafted |->
                      [type |-> "CONTENT_DRAFTED", rfp_id |-> rfp_id,
                       source_agent |-> "WRITER_AGENT",
                       num_tasks |-> Len(items),
                       num_drafted |-> Len(r.ids),
                       draft_results |-> r.results]],
                  IF can_transition("CONTENT_DRAFT", "LEGAL_REVIEW")
                  THEN "LEGAL_REVIEW" ELSE None)]

\* LegalAgent._perform_legal_review(task_info): risk level and number of
\* issues of the template chosen by review_type
perform_legal_review(item) ==
    CASE item.review_type = "contract_terms" ->
            [risk_level |-> "medium", issues |-> 3]
      [] item.review_type = "liability" ->
            [risk_level |-> "high", issues |-> 2]
      [] item.review_type = "compliance" ->
            [risk_level |-> "low",
             issues |-> IF Len(item.industry_regulations) < 2
                        THEN Len(item.industry_regulations) ELSE 2]
      [] OTHER -> [risk_level |-> "low", issues |-> 0]

\* The $set of LegalAgent.run on the matched task
LegalReviewTask(task, item) ==
    [task EXCEPT
        !.status = "COMPLETED",
        !.metadata =
            SetMetadata(
                SetMetadata(task.metadata, "legal_review", perform_legal_review(item)),
                "legal_agent",
                [source_agent |-> "LEGAL_AGENT",
                 review_type |-> item.review_type])]

\* The for-loop of LegalAgent.run from item i on
RECURSIVE LegalReviewItems(_, _, _, _, _)
LegalReviewItems(tasks, items, i, reviewed, review_results) ==
    IF i > Len(items)
    THEN [tasks |-> tasks, ids |-> reviewed, results |-> review_results]
    ELSE LET item == items[i]
         IN  IF ItemSkipped(item)
             THEN LegalReviewItems(tasks, items, i + 1, reviewed, review_results)
             ELSE IF ItemMatched(tasks, item)
             THEN LegalReviewItems(
                      [tasks EXCEPT ![ObjectId(item.task_id)] = LegalReviewTask(@, item)],
                      items, i + 1,
                      Append(reviewed, item.task_id),
                      Append(review_results,
                             [task_id |-> item.task_id,
                              review_type |-> item.review_type,
                              risk_level |-> perform_legal_review(item).risk_level,
                              issues_found |-> perform_legal_review(item).issues,
                              status |-> "reviewed"]))
             ELSE LegalReviewItems(tasks, items, i + 1, reviewed, review_results)

\* LegalAgent.run(agent_input): the task store afterwards and the result
LegalAgentRun(tasks, rfp_id, items) ==
    IF items = << >>
    THEN [tasks |-> tasks,
          result |-> FailureResult("LegalAgent requires 'tasks' in payload.")]
    ELSE LET r == LegalReviewItems(tasks, items, 1, << >>, << >>)
         IN  [tasks |-> r.tasks,
              result |-> BaseAgentResult(
                  TRUE, "LegalAgent reviewed sections.",
                  [reviewed_task_ids |-> r.ids],
                  [legal_review_completed |->
                      [type |-> "LEGAL_REVIEW_COMPLETED", rfp_id |-> rfp_id,
                       source_agent |-> "LEGAL_AGENT",
                       num_tasks |-> Len(items),
                       num_reviewed |-> Len(r.ids),
                       review_results |-> r.results]],
                  IF can_transition("LEGAL_REVIEW", "QUALITY_REVIEW")
                  THEN "QUALITY_REVIEW" ELSE None)]

(***************************************************************************)
(* Quality scores are kept in hundredths (0.85 is 85).  A content is the   *)
(* record of the facts the four checks read off the text:                  *)
(*   short    len(content) < 50          long     len(content) > 200       *)
(*   issues   how many of "..", a double space, too many "!" it shows      *)
(*   headings "##" occurs in it          listed   a line starts a list     *)
(*   few_lines  it has fewer than 5 lines                                  *)
(*   covers   the requirements one of whose words it contains              *)
(* The average of a batch is the pair [num, den] of the summed scores and  *)
(* the divisor.  round(x, 2) is taken to the nearest hundredth; where x    *)
(* lies halfway the binary representation decides, and the inputs used     *)
(* below produce no such x.                                                *)
(***************************************************************************)

Max2(a, b) == IF a >= b THEN a ELSE b

\* QualityAgent._check_grammar(content)
check_grammar(content) ==
    IF content.short THEN 70 ELSE Max2(80 - content.issues * 10, 60)

\* QualityAgent._check_formatting(content)
check_formatting(content) ==
    Max2(90 - (IF content.headings THEN 10 ELSE 0)
            - (IF ~content.listed /\ content.long THEN 10 ELSE 0),
         70)

\* QualityAgent._check_completeness(content, requirements)
check_completeness(content, requirements) ==
    IF requirements = << >>
    THEN 90
    ELSE LET covered == Cardinality({ i \in 1..Len(requirements) :
                                        requirements[i] \in content.covers })
         IN  (covered * 100) \div Len(requirements)

\* QualityAgent._check_consistency(content): the penalty for inconsistent
\* heading levels compares the text before the first "#" of lines that start
\* with "#", which is empty for each of them, so it never applies.
check_consistency(content) ==
    IF content.few_lines THEN 80 ELSE 90

\* quality_criteria.get(check.replace("_score", ""), True)
CriteriaGet(quality_criteria, check) ==
    IF check \in DOMAIN quality_criteria THEN quality_criteria[check] ELSE TRUE

SumOf(f) ==
    LET RECURSIVE Sum(_)
        Sum(S) == IF S = {} THEN 0
                  ELSE LET x == CHOOSE x \in S : TRUE
                       IN  f[x] + Sum(S \ {x})
    IN  Sum(DOMAIN f)

\* round(num / den, 2), in hundredths
Round2(num, den) == (2 * num + den) \div (2 * den)

\* QualityAgent._perform_quality_review(task_info)
perform_quality_review(item) ==
    LET quality_checks ==
            [grammar |-> check_grammar(item.content),
             formatting |-> check_formatting(item.content),
             completeness |-> check_completeness(item.content,
                                                 item.requirements_checklist),
             consistency |-> check_consistency(item.content)]
        enabled == { c \in DOMAIN quality_checks :
                        CriteriaGet(item.quality_criteria, c) }
        enabled_checks == [c \in enabled |-> quality_checks[c]]
    IN  [quality_score |-> IF enabled = {} THEN 80
                           ELSE Round2(SumOf(enabled_checks), Cardinality(enabled)),
         requirements_coverage |-> quality_checks.completeness,
         issues |-> Cardinality(
             { c \in {"grammar", "formatting", "consistency"} : quality_checks[c] < 80 }
             \cup { c \in {"completeness"} : quality_checks[c] < 90 })]

\* The $set of QualityAgent.run on the matched task
QualityReviewTask(task, item) ==
    [task EXCEPT
        !.status = "COMPLETED",
        !.metadata =
            SetMetadata(
                SetMetadata(task.metadata, "quality_review",
                            perform_quality_review(item)),
                "quality_agent",
                [source_agent |-> "QUALITY_AGENT",
                 quality_score |-> perform_quality_review(item).quality_score])]

\* The for-loop of QualityAgent.run from item i on; overall is
\* overall_quality_score, added to before the update is attempted
RECURSIVE QualityReviewItems(_, _, _, _, _, _)
QualityReviewItems(tasks, items, i, reviewed, quality_results, overall) ==
    IF i > Len(items)
    THEN [tasks |-> tasks, ids |-> reviewed, results |-> quality_results,
          overall |-> overall]
    ELSE LET item == items[i]
             q == perform_quality_review(item)
         IN  IF ItemSkipped(item)
             THEN QualityReviewItems(tasks, items, i + 1, reviewed,
                                     quality_results, overall)
             ELSE IF ItemMatched(tasks, item)
             THEN QualityReviewItems(
                      [tasks EXCEPT ![ObjectId(item.task_id)] = QualityReviewTask(@, item)],
                      items, i + 1,
                      Append(reviewed, item.task_id),
                      Append(quality_results,
                             [task_id |-> item.task_id,
                              quality_score |-> q.quality_score,
                              issues_found |-> q.issues,
                              requirements_met |-> q.requirements_coverage,
                              status |-> "reviewed"]),
                      overall + q.quality_score)
             ELSE QualityReviewItems(tasks, items, i + 1, reviewed,
                                     quality_results, overall + q.quality_score)

\* The quality gate of QualityAgent.run, in hundredths
QualityThreshold == 85

\* A mutant of the gate: the average has to exceed the threshold.
QualityGate_strict(avg_quality_score) ==
    avg_quality_score.num > QualityThreshold * avg_quality_score.den

\* avg_quality_score >= 0.85
QualityGate(avg_quality_score) ==
    avg_quality_score.num >= QualityThreshold * avg_quality_score.den

\* QualityAgent.run(agent_input): the task store afterwards and the result
QualityAgentRun(tasks, rfp_id, items) ==
    IF items = << >>
    THEN [tasks |-> tasks,
          result |-> FailureResult("QualityAgent requires 'tasks' in payload.")]
    ELSE LET r == QualityReviewItems(tasks, items, 1, << >>, << >>, 0)
             avg_quality_score == [num |-> r.overall, den |-> Len(items)]
         IN  [tasks |-> r.tasks,
              result |-> BaseAgentResult(
                  TRUE, "QualityAgent reviewed sections.",
                  [reviewed_task_ids |-> r.ids,
                   quality_score |-> avg_quality_score],
                  [quality_review_completed |->
                      [type |-> "QUALITY_REVIEW_COMPLETED", rfp_id |-> rfp_id,
                       source_agent |-> "QUALITY_AGENT",
                       num_tasks |-> Len(items),
                       num_reviewed |-> Len(r.ids),
                       avg_quality_score |-> avg_quality_score,
                       quality_results |-> r.results]],
                  IF QualityGate(avg_quality_score)
                     /\ can_transition("QUALITY_REVIEW", "FINAL_RFP")
                  THEN "FINAL_RFP" ELSE None)]

(***************************************************************************)
(* rfp_studio/orchestrator/langgraph_flow.py                               *)
(***************************************************************************)

\* dict.get(key, default) on the accumulated state
StateGet(st, key, default) == IF key \in DOMAIN st THEN st[key] ELSE default

\* A mutant of the merge: the lists are rebuilt from the latest result only.
merge_agent_result_overwrite(prev_state, result) ==
    LET keys == DOMAIN prev_state
                  \cup {"agent_changes", "agent_events", "last_message", "last_success"}
                  \cup (IF Truthy(result.next_state) THEN {"next_state"} ELSE {})
    IN  [k \in keys |->
            CASE k = "agent_changes" -> << result.changes >>
              [] k = "agent_events" -> << result.events >>
              [] k = "next_state" /\ Truthy(result.next_state) -> result.next_state
              [] k = "last_message" -> result.message
              [] k = "last_success" -> result.success
              [] OTHER -> prev_state[k]]

\* A mutant of the merge: next_state is taken from the result even when the
\* result supplies none.
merge_agent_result_clobber(prev_state, result) ==
    LET keys == DOMAIN prev_state
                  \cup {"agent_changes", "agent_events", "last_message",
                        "last_success", "next_state"}
    IN  [k \in keys |->
            CASE k = "agent_changes" ->
                    Append(StateGet(prev_state, "agent_changes", << >>), result.changes)
              [] k = "agent_events" ->
                    Append(StateGet(prev_state, "agent_events", << >>), result.events)
              [] k = "next_state" -> result.next_state
              [] k = "last_message" -> result.message
              [] k = "last_success" -> result.success
              [] OTHER -> prev_state[k]]

\* A mutant of the merge: a failure sticks, last_success stays false once an
\* agent has failed.
merge_agent_result_sticky(prev_state, result) ==
    LET keys == DOMAIN prev_state
                  \cup {"agent_changes", "agent_events", "last_message", "last_success"}
                  \cup (IF Truthy(result.next_state) THEN {"next_state"} ELSE {})
    IN  [k \in keys |->
            CASE k = "agent_changes" ->
                    Append(StateGet(prev_state, "agent_changes", << >>), result.changes)
              [] k = "agent_events" ->
                    Append(StateGet(prev_state, "agent_events", << >>), result.events)
              [] k = "next_state" /\ Truthy(result.next_state) -> result.next_state
              [] k = "last_message" -> result.message
              [] k = "last_success" ->
                    StateGet(prev_state, "last_success", TRUE) /\ result.success
              [] OTHER -> prev_state[k]]

\* A mutant of the merge: the id of a record the agent returned becomes
\* the accumulated rfp_id.
merge_agent_result_pass_id(prev_state, result) ==
    LET keys == DOMAIN prev_state
                  \cup {"agent_changes", "agent_events", "last_message", "last_success"}
                  \cup (IF Truthy(result.next_state) THEN {"next_state"} ELSE {})
    IN  [k \in keys |->
            CASE k = "agent_changes" ->
                    Append(StateGet(prev_state, "agent_changes", << >>), result.changes)
              [] k = "agent_events" ->
                    Append(StateGet(prev_state, "agent_events", << >>), result.events)
              [] k = "next_state" /\ Truthy(result.next_state) -> result.next_state
              [] k = "last_message" -> result.message
              [] k = "last_success" -> result.success
              [] k = "rfp_id" /\ "rfp" \in DOMAIN result.changes -> result.changes.rfp.id
              [] OTHER -> prev_state[k]]

\* def _merge_agent_result(prev_state, result) -> dict
merge_agent_result(prev_state, result) ==
    LET keys == DOMAIN prev_state
                  \cup {"agent_changes", "agent_events", "last_message", "last_success"}
                  \cup (IF Truthy(result.next_state) THEN {"next_state"} ELSE {})
    IN  [k \in keys |->
            CASE k = "agent_changes" ->
                    Append(StateGet(prev_state, "agent_changes", << >>), result.changes)
              [] k = "agent_events" ->
                    Append(StateGet(prev_state, "agent_events", << >>), result.events)
              [] k = "next_state" /\ Truthy(result.next_state) -> result.next_state
              [] k = "last_message" -> result.message
              [] k = "last_success" -> result.success
              [] OTHER -> prev_state[k]]

\* A mutant of the transition: the record is filtered by ObjectId and the
\* proposed status is written without consulting can_transition.
apply_workflow_transition_unchecked(rfps, rfp_id, next_status) ==
    IF ~IdTruthy(rfp_id) \/ ~Truthy(next_status) THEN rfps
    ELSE IF next_status \notin RFPStatus THEN rfps
    ELSE IF ~ObjectIdValid(rfp_id) THEN rfps
    ELSE IF ObjectId(rfp_id) \notin DOMAIN rfps THEN rfps
    ELSE [rfps EXCEPT ![ObjectId(rfp_id)].status = next_status]

\* A mutant of the transition: a request moves the record one stage on from
\* wherever it stands.
apply_workflow_transition_advance(rfps, rfp_id, next_status) ==
    IF ~IdTruthy(rfp_id) \/ ~Truthy(next_status) THEN rfps
    ELSE IF next_status \notin RFPStatus THEN rfps
    ELSE IF ~ObjectIdValid(rfp_id) THEN rfps
    ELSE IF ObjectId(rfp_id) \notin DOMAIN rfps THEN rfps
    ELSE IF get_next_valid_states(rfps[ObjectId(rfp_id)].status) = << >> THEN rfps
    ELSE [rfps EXCEPT ![ObjectId(rfp_id)].status =
                get_next_valid_states(rfps[ObjectId(rfp_id)].status)[1]]

\* A mutant of the transition: the record is filtered by ObjectId and the
\* proposed status is written whenever it lies later in the chain.
apply_workflow_transition_forward(rfps, rfp_id, next_status) ==
    LET place(st) == CHOOSE i \in 1..Len(RFPStatusMembers) : RFPStatusMembers[i] = st
    IN  IF ~IdTruthy(rfp_id) \/ ~Truthy(next_status) THEN rfps
        ELSE IF next_status \notin RFPStatus THEN rfps
        ELSE IF ~ObjectIdValid(rfp_id) THEN rfps
        ELSE IF ObjectId(rfp_id) \notin DOMAIN rfps THEN rfps
        ELSE IF rfps[ObjectId(rfp_id)].status \notin RFPStatus THEN rfps
        ELSE IF place(rfps[ObjectId(rfp_id)].status) < place(next_status)
             THEN [rfps EXCEPT ![ObjectId(rfp_id)].status = next_status]
             ELSE rfps

\* def apply_workflow_transition(rfp_id, next_status): the rfps collection
\* afterwards.  find_one and update_one filter on {"_id": rfp_id}, the string
\* itself.
apply_workflow_transition(rfps, rfp_id, next_status) ==
    IF ~IdTruthy(rfp_id) \/ ~Truthy(next_status) THEN rfps
    ELSE IF next_status \notin RFPStatus THEN rfps
    ELSE IF rfp_id \notin DOMAIN rfps THEN rfps
    ELSE IF rfps[rfp_id].status \notin RFPStatus THEN rfps
    ELSE IF can_transition(rfps[rfp_id].status, next_status)
         THEN [rfps EXCEPT ![rfp_id].status = next_status]
         ELSE rfps

\* def apply_workflow_transition(rfp_id, next_status): how the call ends.
\* Every path ends in a plain return: the early return, the two `except
\* Exception: return` around RFPStatus(...), `if not rfp: return`, and the
\* end of the function.
apply_workflow_transition_outcome(rfps, rfp_id, next_status) ==
    IF ~IdTruthy(rfp_id) \/ ~Truthy(next_status) THEN "returned"
    ELSE IF next_status \notin RFPStatus THEN "returned"
    ELSE IF rfp_id \notin DOMAIN rfps THEN "returned"
    ELSE IF rfps[rfp_id].status \notin RFPStatus THEN "returned"
    ELSE "returned"

\* build_graph(): the nodes in the order they are added
GraphNodes == << "sales", "bdm_review", "sme_router" >>

\* A mutant of the entry point: the graph is entered at bdm_review.
EntryPoint_bdm == "bdm_review"

\* graph.set_entry_point("sales")
EntryPoint == "sales"

END == "END"

\* A mutant of the edges: sales is wired straight to sme_router.
GraphEdge_skip_bdm(node) ==
    CASE node = "sales" -> "sme_router"
      [] node = "bdm_review" -> "sme_router"
      [] node = "sme_router" -> END

\* A mutant of the edges: bdm_review is wired to a node that was never
\* added.
GraphEdge_dangling(node) ==
    CASE node = "sales" -> "bdm_review"
      [] node = "bdm_review" -> "legal_review"
      [] node = "sme_router" -> END

\* graph.add_edge(a, b): the node that follows node
GraphEdge(node) ==
    CASE node = "sales" -> "bdm_review"
      [] node = "bdm_review" -> "sme_router"
      [] node = "sme_router" -> END

(***************************************************************************)
(* State                                                                   *)
(***************************************************************************)
VARIABLES
    rfps,        \* the rfps collection: _id -> document
    tasks,       \* the tasks collection: _id -> document
    pc,          \* position of the run_flow call in flight: "idle", a graph
                 \* node, END (graph done, transition not yet applied),
                 \* "returned", "raised"
    state,       \* the accumulated state handed from node to node
    run_rfp_id,  \* run_flow's own rfp_id argument
    invoked,     \* history: the nodes invoked by the run, in order
    results,     \* history: the results the run's agents returned, in order
    start_rfps,  \* history: the rfps collection when the run started
    runs,        \* number of run_flow calls so far
    a_last,      \* history: arguments of the last direct call of
                 \* apply_workflow_transition, << rfp_id, next_status >>
    a_same,      \* history: that call repeated the call right before it
    a_prev_rfps, \* history: the rfps collection before that call
    t_op,        \* table function called last: "none", "can", "next"
    t_from,      \* from_status of that call
    t_to,        \* to_status of that call (can_transition only)
    t_can,       \* result of the last can_transition call
    t_next,      \* result of the last get_next_valid_states call
    walk,        \* the states visited by following successors from INITIATED
    b_in,        \* breakdown call: << rfp_id, sections >> of the last call
    b_before,    \* history: the stores before the last breakdown call
    b_result,    \* the result of the last breakdown call
    b_calls,     \* number of breakdown calls so far
    k_agent,     \* batch call: the agent called last ("none" before any)
    k_in,        \* the items (questions) of that call
    k_oracle,    \* what embedding and search did for each question
    k_before,    \* history: the tasks collection before that call
    k_result,    \* the result that call returned
    k_raised,    \* that call raised instead of returning
    k_calls,     \* number of batch calls so far
    s_in,        \* intake call: << rfp_id, payload >> of the last call
    s_before,    \* history: the rfps collection before that call
    s_result,    \* the result that call returned
    s_calls,     \* number of intake calls so far
    c_pc,        \* concurrent processes: position of each in its agent
    c_job,       \* the agent each process runs and its payload
    c_doc,       \* the document each process read with find_one
    c_ids,       \* the ids of the tasks each process has inserted
    p_state,     \* the state the run_flow call before this one returned
    p_results,   \* history: the results that call's agents returned
    kb,          \* the knowledge_base collection, in insertion order
    vs_query,    \* the query vector of the last similarity search
    vs_limit,    \* the limit of that search, 0 before the first search
    vs_out,      \* the documents that search returned
    r_pc,        \* racing callers: position of each in apply_workflow_transition
    r_call,      \* the arguments of each caller's call
    r_doc        \* the document each caller read with find_one

store_vars == << rfps, tasks >>
run_vars == << pc, state, run_rfp_id, invoked, results, start_rfps, runs >>
apply_vars == << a_last, a_same, a_prev_rfps >>
table_vars == << t_op, t_from, t_to, t_can, t_next, walk >>
bdm_vars == << b_in, b_before, b_result, b_calls >>

batch_vars == << k_agent, k_in, k_oracle, k_before, k_result, k_raised, k_calls >>
sales_vars == << s_in, s_before, s_result, s_calls >>
conc_vars == << c_pc, c_job, c_doc, c_ids >>
pair_vars == << p_state, p_results >>
search_vars == << kb, vs_query, vs_limit, vs_out >>
race_vars == << r_pc, r_call, r_doc >>
ext_vars == << batch_vars, sales_vars, conc_vars, pair_vars, search_vars, race_vars >>

vars == << store_vars, run_vars, apply_vars, table_vars, bdm_vars, ext_vars >>

NoCall == << NoneId, None >>

StoreInit == rfps = EmptyMap /\ tasks = EmptyMap

RunInit ==
    /\ pc = "idle"
    /\ state = EmptyMap
    /\ run_rfp_id = NoneId
    /\ invoked = << >>
    /\ results = << >>
    /\ start_rfps = EmptyMap
    /\ runs = 0

ApplyInit ==
    /\ a_last = NoCall
    /\ a_same = FALSE
    /\ a_prev_rfps = EmptyMap

TableInit ==
    /\ t_op = "none"
    /\ t_from = None
    /\ t_to = None
    /\ t_can = FALSE
    /\ t_next = << >>
    /\ walk = << "INITIATED" >>

BdmInit ==
    /\ b_in = << NoneId, << >> >>
    /\ b_before = [rfps |-> EmptyMap, tasks |-> EmptyMap]
    /\ b_result = FailureResult(None)
    /\ b_calls = 0

BatchInit ==
    /\ k_agent = "none"
    /\ k_in = << >>
    /\ k_oracle = << >>
    /\ k_before = EmptyMap
    /\ k_result = FailureResult(None)
    /\ k_raised = FALSE
    /\ k_calls = 0

SalesInit ==
    /\ s_in = << NoneId, EmptyMap >>
    /\ s_before = EmptyMap
    /\ s_result = FailureResult(None)
    /\ s_calls = 0

\* The processes that run an agent at the same time (two invocations of the
\* command line, each its own operating-system process and client)
Procs == { 1, 2 }

NoJob == [agent |-> "none", payload |-> EmptyMap]

ConcInit ==
    /\ c_pc = [p \in Procs |-> "idle"]
    /\ c_job = [p \in Procs |-> NoJob]
    /\ c_doc = [p \in Procs |-> EmptyMap]
    /\ c_ids = [p \in Procs |-> << >>]

PairInit ==
    /\ p_state = EmptyMap
    /\ p_results = << >>

SearchInit ==
    /\ kb = << >>
    /\ vs_query = 0
    /\ vs_limit = 0
    /\ vs_out = << >>

\* Bound on the number of callers racing in apply_workflow_transition
NumRacers == 3

Racers == 1..NumRacers

RaceInit ==
    /\ r_pc = [p \in Racers |-> "idle"]
    /\ r_call = [p \in Racers |-> NoCall]
    /\ r_doc = [p \in Racers |-> EmptyMap]

Init ==
    /\ StoreInit /\ RunInit /\ ApplyInit /\ TableInit /\ BdmInit
    /\ BatchInit /\ SalesInit /\ ConcInit /\ PairInit /\ SearchInit
    /\ RaceInit

(***************************************************************************)
(* Specification SpecTable: the table's two functions applied to every     *)
(* pair of values, and the walk that follows successors from INITIATED.    *)
(***************************************************************************)

\* A value that is not a member of RFPStatus
NotAStatus == "NOT_A_STATUS"

StatusInputs == RFPStatus \cup {NotAStatus}

\* Bound on the length of the successor walk
MaxWalk == 14

CallCanTransition ==
    \E a \in StatusInputs, b \in StatusInputs :
        /\ t_op' = "can"
        /\ t_from' = a
        /\ t_to' = b
        /\ t_can' = can_transition(a, b)
        /\ t_next' = << >>
        /\ UNCHANGED walk
        /\ UNCHANGED << store_vars, run_vars, apply_vars, bdm_vars, ext_vars >>

CallGetNextValidStates ==
    \E a \in StatusInputs :
        /\ t_op' = "next"
        /\ t_from' = a
        /\ t_next' = get_next_valid_states(a)
        /\ t_to' = None
        /\ t_can' = FALSE
        /\ UNCHANGED walk
        /\ UNCHANGED << store_vars, run_vars, apply_vars, bdm_vars, ext_vars >>

\* One step of a caller that advances to the first next valid state.
FollowSuccessor ==
    /\ Len(walk) < MaxWalk
    /\ get_next_valid_states(walk[Len(walk)]) # << >>
    /\ walk' = Append(walk, get_next_valid_states(walk[Len(walk)])[1])
    /\ UNCHANGED << t_op, t_from, t_to, t_can, t_next >>
    /\ UNCHANGED << store_vars, run_vars, apply_vars, bdm_vars, ext_vars >>

TableNext == CallCanTransition \/ CallGetNextValidStates \/ FollowSuccessor

SpecTable == Init /\ [][TableNext]_vars

(***************************************************************************)
(* Inputs of the pipeline                                                  *)
(***************************************************************************)

\* Bound on the number of run_flow calls
MaxRuns == 2

\* Bound: the HTTP front end adds a record only to a store holding fewer
\* records than this
MaxSeeded == 1

\* payload.get(key) of an absent key is None; `or []` and `or {}` make an
\* absent list or map the empty one.
EmptyPayload ==
    [title |-> None, client_name |-> None, client_contact |-> None,
     received_date |-> None, due_date |-> None, industry |-> None,
     metadata |-> EmptyMap, sections |-> << >>, questions |-> << >>]

Section(title, task_type) ==
    [title |-> title, task_type |-> task_type, suggested_team |-> None]

Question(task_id, text) == [task_id |-> task_id, text |-> text]

SectionLists ==
    { << >>,
      << Section("Overview", "CONTENT_DRAFT") >>,
      << Section(None, "NO_SUCH_TYPE"), Section("Security", None) >> }

QuestionLists ==
    { << >>,
      << Question(Str(1), "Do you hold SOC2?") >>,
      << Question(BadIdStr, "What is the SLA?"), Question(Str(1), " ") >> }

IntakeFields ==
    { << None, None >>, << "Cloud RFP", None >>, << "Cloud RFP", "Acme" >> }

Payloads ==
    { [EmptyPayload EXCEPT !.title = f[1], !.client_name = f[2],
                           !.sections = s, !.questions = q] :
        f \in IntakeFields, s \in SectionLists, q \in QuestionLists }

RfpIdInputs == { NoneId, Str(1), BadIdStr }

Contexts == { EmptyMap }

\* Statuses given to records created through POST /rfps
SeedStatuses == { "INITIATED", "BDM_REVIEW", "SUBMITTED" }

Match(kb_id, team_key, score) ==
    [kb_id |-> kb_id, team_key |-> team_key, score |-> score]

\* What the embedding provider and the vector search can do for a question
Outcomes ==
    { [embed |-> "fail", search |-> "ok", results |-> << >>],
      [embed |-> "ok", search |-> "raise", results |-> << >>],
      [embed |-> "ok", search |-> "ok", results |-> << >>],
      [embed |-> "ok", search |-> "ok",
       results |-> << Match("kb1", None, 90) >>],
      [embed |-> "ok", search |-> "ok",
       results |-> << Match("kb1", "sme_team_security", 90),
                      Match("kb2", "sme_team_platform", 80) >>] }

Oracles(questions) == [1..Len(questions) -> Outcomes]

(***************************************************************************)
(* Specification Spec: run_flow calls, one at a time, on a store that also *)
(* receives records through the HTTP front end; direct calls of            *)
(* apply_workflow_transition between the runs.                             *)
(***************************************************************************)

NoRunInFlight == pc = "idle"

\* app.py: POST /rfps inserts the posted document, status included
create_rfp(statuses) ==
    /\ NoRunInFlight
    /\ Cardinality(DOMAIN rfps) < MaxSeeded
    /\ \E st \in statuses :
          LET oid == NewOid(rfps)
              doc == RFPDoc("Seeded RFP", [name |-> "Globex", contact |-> None],
                            st, [received_date |-> None, due_date |-> None],
                            [industry |-> None])
          IN  rfps' = [k \in DOMAIN rfps \cup {oid} |->
                          IF k = oid THEN doc ELSE rfps[k]]
    /\ a_last' = NoCall
    /\ a_same' = FALSE
    /\ a_prev_rfps' = EmptyMap
    /\ UNCHANGED << tasks, run_vars, table_vars, bdm_vars, ext_vars >>

\* run_flow(rfp_id, payload, context) up to graph.ainvoke(initial_state)
RunFlowStart ==
    /\ NoRunInFlight
    /\ runs < MaxRuns
    /\ \E id \in RfpIdInputs, p \in Payloads, c \in Contexts :
          /\ run_rfp_id' = id
          /\ state' = [rfp_id |-> id, payload |-> p, context |-> c]
    /\ pc' = EntryPoint
    /\ invoked' = << >>
    /\ results' = << >>
    /\ start_rfps' = rfps
    /\ runs' = runs + 1
    /\ a_last' = NoCall
    /\ a_same' = FALSE
    /\ a_prev_rfps' = EmptyMap
    /\ UNCHANGED << store_vars, table_vars, bdm_vars, ext_vars >>

\* async def run_sales_agent(state)
run_sales_agent ==
    /\ pc = "sales"
    /\ LET r == SalesAgentRun(rfps, state.rfp_id, state.payload)
       IN  /\ rfps' = r.rfps
           /\ state' = merge_agent_result(state, r.result)
           /\ results' = Append(results, r.result)
    /\ invoked' = Append(invoked, "sales")
    /\ pc' = GraphEdge("sales")
    /\ UNCHANGED << tasks, run_rfp_id, start_rfps, runs >>
    /\ UNCHANGED << apply_vars, table_vars, bdm_vars, ext_vars >>

\* async def run_bdm_agent(state)
run_bdm_agent ==
    /\ pc = "bdm_review"
    /\ LET r == BDMReviewAgentRun(rfps, tasks, state.rfp_id, state.payload)
       IN  /\ rfps' = r.rfps
           /\ tasks' = r.tasks
           /\ state' = merge_agent_result(state, r.result)
           /\ results' = Append(results, r.result)
    /\ invoked' = Append(invoked, "bdm_review")
    /\ pc' = GraphEdge("bdm_review")
    /\ UNCHANGED << run_rfp_id, start_rfps, runs >>
    /\ UNCHANGED << apply_vars, table_vars, bdm_vars, ext_vars >>

\* async def run_sme_router(state): an exception of the agent leaves the
\* graph and run_flow with it
run_sme_router ==
    /\ pc = "sme_router"
    /\ \E oracle \in Oracles(state.payload.questions) :
          LET r == SMERoutingAgentRun(tasks, state.payload, oracle)
          IN  /\ tasks' = r.tasks
              /\ IF r.raised
                 THEN /\ pc' = "raised"
                      /\ UNCHANGED << state, results >>
                 ELSE /\ pc' = GraphEdge("sme_router")
                      /\ state' = merge_agent_result(state, r.result)
                      /\ results' = Append(results, r.result)
    /\ invoked' = Append(invoked, "sme_router")
    /\ UNCHANGED << rfps, run_rfp_id, start_rfps, runs >>
    /\ UNCHANGED << apply_vars, table_vars, bdm_vars, ext_vars >>

\* run_flow after graph.ainvoke: apply the transition, return final_state
RunFlowFinish ==
    /\ pc = END
    /\ rfps' = IF "next_state" \in DOMAIN state /\ IdTruthy(run_rfp_id)
               THEN apply_workflow_transition(rfps, run_rfp_id,
                                              StateGet(state, "next_state", None))
               ELSE rfps
    /\ pc' = "returned"
    /\ UNCHANGED << tasks, state, run_rfp_id, invoked, results, start_rfps, runs >>
    /\ UNCHANGED << apply_vars, table_vars, bdm_vars, ext_vars >>

\* The caller is done with the returned state (or with the exception).
CallerDone ==
    /\ pc \in {"returned", "raised"}
    /\ pc' = "idle"
    /\ state' = EmptyMap
    /\ run_rfp_id' = NoneId
    /\ invoked' = << >>
    /\ results' = << >>
    /\ start_rfps' = EmptyMap
    /\ UNCHANGED << store_vars, runs, apply_vars, table_vars, bdm_vars, ext_vars >>

\* A direct call apply_workflow_transition(rfp_id, next_status)
CallApplyWorkflowTransition(ids, statuses) ==
    /\ NoRunInFlight
    /\ \E id \in ids, nxt \in statuses :
          /\ rfps' = apply_workflow_transition(rfps, id, nxt)
          /\ a_same' = (a_last = << id, nxt >>)
          /\ a_last' = << id, nxt >>
    /\ a_prev_rfps' = rfps
    /\ UNCHANGED << tasks, run_vars, table_vars, bdm_vars, ext_vars >>

DirectIds == { NoneId, Str(1), BadIdStr }
DirectStatuses == { None, "LINKED_TO_RFP", "RFP_BREAKDOWN", NotAStatus }

Next ==
    \/ create_rfp(SeedStatuses)
    \/ RunFlowStart
    \/ run_sales_agent
    \/ run_bdm_agent
    \/ run_sme_router
    \/ RunFlowFinish
    \/ CallerDone
    \/ CallApplyWorkflowTransition(DirectIds, DirectStatuses)

Spec == Init /\ [][Next]_vars

(***************************************************************************)
(* Specification SpecApply: direct calls of apply_workflow_transition with *)
(* every identifier and every status, on records of every status.          *)
(***************************************************************************)

ApplyIds == { NoneId, EmptyStr, BadIdStr, Str(1), Str(2) }

ApplyStatuses == StatusInputs \cup { None, "" }

ApplyNext ==
    \/ create_rfp(StatusInputs)
    \/ CallApplyWorkflowTransition(ApplyIds, ApplyStatuses)

SpecApply == Init /\ [][ApplyNext]_vars

(***************************************************************************)
(* Specification SpecMerge: _merge_agent_result folded over every sequence *)
(* of agent results, from the initial state run_flow builds.               *)
(***************************************************************************)

\* Bound on the number of results merged into one accumulated state
MaxMerges == 3

ResultInputs ==
    { BaseAgentResult(ok, "message", m, m, nxt) :
        ok \in BOOLEAN,
        m \in { EmptyMap, [entry |-> [type |-> "EVENT"]] },
        nxt \in { None, "", "LINKED_TO_RFP", "RFP_BREAKDOWN" } }

MergeStart ==
    /\ pc = "idle"
    /\ \E id \in RfpIdInputs :
          /\ run_rfp_id' = id
          /\ state' = [rfp_id |-> id, payload |-> EmptyPayload, context |-> EmptyMap]
    /\ pc' = "merging"
    /\ UNCHANGED << invoked, results, start_rfps, runs >>
    /\ UNCHANGED << store_vars, apply_vars, table_vars, bdm_vars, ext_vars >>

MergeResult ==
    /\ pc = "merging"
    /\ Len(results) < MaxMerges
    /\ \E r \in ResultInputs :
          /\ state' = merge_agent_result(state, r)
          /\ results' = Append(results, r)
    /\ UNCHANGED << pc, run_rfp_id, invoked, start_rfps, runs >>
    /\ UNCHANGED << store_vars, apply_vars, table_vars, bdm_vars, ext_vars >>

MergeNext == MergeStart \/ MergeResult

SpecMerge == Init /\ [][MergeNext]_vars

(***************************************************************************)
(* Specification SpecBdm: direct calls of BDMReviewAgent.run               *)
(***************************************************************************)

\* Bound on the number of BDMReviewAgent.run calls
MaxBdmCalls == 2

Titled1 == Section("Overview", "CONTENT_DRAFT")
Titled2 == Section("Security", "SME_QA")
Titled3 == Section("Pricing", None)
Untitled == Section(None, "CONTENT_DRAFT")
EmptyTitled == Section("", "NO_SUCH_TYPE")

BdmSectionLists ==
    { << >>,
      << Titled1 >>,
      << Untitled >>,
      << Untitled, Titled1, Titled2, Titled3 >>,
      << Titled1, Untitled, Titled2, Titled3 >>,
      << Titled1, Titled2, Untitled, Titled3 >>,
      << Titled1, Titled2, Titled3, Untitled >>,
      << Titled1, Titled2, Titled3, EmptyTitled >> }

BdmIds == { NoneId, BadIdStr, Str(1), Str(2) }

\* BDMReviewAgent().run(BaseAgentInput(rfp_id=id, payload={"sections": secs}))
CallBdm ==
    /\ b_calls < MaxBdmCalls
    /\ \E id \in BdmIds, secs \in BdmSectionLists :
          LET r == BDMReviewAgentRun(rfps, tasks, id,
                                     [EmptyPayload EXCEPT !.sections = secs])
          IN  /\ rfps' = r.rfps
              /\ tasks' = r.tasks
              /\ b_result' = r.result
              /\ b_in' = << id, secs >>
    /\ b_before' = [rfps |-> rfps, tasks |-> tasks]
    /\ b_calls' = b_calls + 1
    /\ UNCHANGED << run_vars, apply_vars, table_vars, ext_vars >>

BdmNext == create_rfp(SeedStatuses) \/ CallBdm

SpecBdm == Init /\ [][BdmNext]_vars

(***************************************************************************)
(* Specification SpecBatch: direct calls of the four batch agents          *)
(* (SMERoutingAgent, WriterAgent, LegalAgent, QualityAgent) on the tasks   *)
(* a breakdown created.  Tasks 1 and 2 exist, task 3 does not.             *)
(***************************************************************************)

\* Bound on the number of batch-agent calls
MaxBatchCalls == 2

BatchRfpIds == { NoneId, Str(1) }

\* BDMReviewAgent.run on the seeded record, once: the tasks of the batches
BreakdownForBatch ==
    /\ tasks = EmptyMap
    /\ LET r == BDMReviewAgentRun(rfps, tasks, Str(1),
                                  [EmptyPayload EXCEPT !.sections = << Titled1, Titled2 >>])
       IN  /\ r.result.success
           /\ rfps' = r.rfps
           /\ tasks' = r.tasks
    /\ UNCHANGED << run_vars, apply_vars, table_vars, bdm_vars, ext_vars >>

WriterItem(task_id, content_type) ==
    [task_id |-> task_id, content_type |-> content_type]

WriterItemLists ==
    { << >>,
      << WriterItem(Str(1), "pricing") >>,
      << WriterItem(NoneId, "pricing"), WriterItem(BadIdStr, None),
         WriterItem(Str(3), "executive_summary") >>,
      << WriterItem(BadIdStr, "pricing"), WriterItem(Str(1), None),
         WriterItem(Str(2), "technical_response") >> }

LegalItem(task_id, review_type, industry_regulations) ==
    [task_id |-> task_id, review_type |-> review_type,
     industry_regulations |-> industry_regulations]

LegalItemLists ==
    { << >>,
      << LegalItem(Str(1), "liability", << >>) >>,
      << LegalItem(NoneId, "general", << >>), LegalItem(BadIdStr, "liability", << >>) >>,
      << LegalItem(Str(3), "compliance", << "GDPR" >>),
         LegalItem(Str(2), None, << >>),
         LegalItem(EmptyStr, "contract_terms", << >>) >> }

\* A text of several list lines that answers the "security" requirement
GoodContent ==
    [short |-> FALSE, long |-> FALSE, issues |-> 0, headings |-> FALSE,
     listed |-> TRUE, few_lines |-> FALSE, covers |-> { "security" }]

\* task_info.get("content", "") of an item without content
NoContent ==
    [short |-> TRUE, long |-> FALSE, issues |-> 0, headings |-> FALSE,
     listed |-> FALSE, few_lines |-> TRUE, covers |-> { }]

AllChecksOff ==
    [c \in {"grammar", "formatting", "completeness", "consistency"} |-> FALSE]

QualityItem(task_id, content, requirements_checklist, quality_criteria) ==
    [task_id |-> task_id, content |-> content,
     requirements_checklist |-> requirements_checklist,
     quality_criteria |-> quality_criteria]

\* Items scoring 90, 80, 65 and 87
Item90(task_id) == QualityItem(task_id, GoodContent, << "security" >>, EmptyMap)
Item80(task_id) == QualityItem(task_id, NoContent, << >>, AllChecksOff)
Item65(task_id) == QualityItem(task_id, GoodContent, << "pricing" >>, EmptyMap)
Item87(task_id) == QualityItem(task_id, NoContent, << >>, [grammar |-> FALSE])

QualityItemLists ==
    { << >>,
      << Item90(Str(1)) >>,
      << Item90(Str(1)), Item80(Str(2)) >>,
      << Item90(Str(1)), Item80(Str(2)), Item80(Str(3)) >>,
      << Item90(Str(1)), Item90(NoneId) >>,
      << Item90(BadIdStr), Item90(NoneId) >>,
      << Item87(Str(1)), Item65(Str(2)) >>,
      << Item90(Str(3)) >> }

RouterQuestionLists ==
    { << >>,
      << Question(Str(1), "Do you hold SOC2?") >>,
      << Question(NoneId, "What is the SLA?"), Question(Str(1), " ") >>,
      << Question(Str(1), "Do you hold SOC2?"), Question(Str(2), "What is the SLA?") >>,
      << Question(BadIdStr, "Do you hold SOC2?"), Question(Str(3), "What is the SLA?") >>,
      << Question(Str(1), "Do you hold SOC2?"), Question(Str(1), "What is the SLA?") >>,
      << Question(Str(1), " "), Question(Str(2), "What is the SLA?") >> }

\* Outcomes of direct routing calls: those of the pipeline, a search whose
\* top result carries no team while a lower one does, and a search whose
\* results rank the other team first
BatchOutcomes ==
    Outcomes \cup
    { [embed |-> "ok", search |-> "ok",
       results |-> << Match("kb3", None, 95),
                      Match("kb2", "sme_team_platform", 80) >>],
      [embed |-> "ok", search |-> "ok",
       results |-> << Match("kb2", "sme_team_platform", 85),
                      Match("kb1", "sme_team_security", 70) >>] }

BatchOracles(questions) == [1..Len(questions) -> BatchOutcomes]

\* The bookkeeping of a batch call that returned result r.result
BatchCalled(agent, items, oracle, r, raised) ==
    /\ tasks' = r.tasks
    /\ k_agent' = agent
    /\ k_in' = items
    /\ k_oracle' = oracle
    /\ k_before' = tasks
    /\ k_result' = IF raised THEN FailureResult(None) ELSE r.result
    /\ k_raised' = raised
    /\ k_calls' = k_calls + 1
    /\ UNCHANGED << rfps, run_vars, apply_vars, table_vars, bdm_vars,
                    sales_vars, conc_vars, pair_vars, search_vars, race_vars >>

\* WriterAgent().run(BaseAgentInput(rfp_id=id, payload={"tasks": items}))
CallWriter ==
    /\ k_calls < MaxBatchCalls
    /\ \E id \in BatchRfpIds, items \in WriterItemLists :
          BatchCalled("writer", items, << >>, WriterAgentRun(tasks, id, items), FALSE)

\* LegalAgent().run(BaseAgentInput(rfp_id=id, payload={"tasks": items}))
CallLegal ==
    /\ k_calls < MaxBatchCalls
    /\ \E id \in BatchRfpIds, items \in LegalItemLists :
          BatchCalled("legal", items, << >>, LegalAgentRun(tasks, id, items), FALSE)

\* QualityAgent().run(BaseAgentInput(rfp_id=id, payload={"tasks": items}))
CallQuality ==
    /\ k_calls < MaxBatchCalls
    /\ \E id \in BatchRfpIds, items \in QualityItemLists :
          BatchCalled("quality", items, << >>, QualityAgentRun(tasks, id, items), FALSE)

\* SMERoutingAgent().run(BaseAgentInput(payload={"questions": questions}))
CallRouter ==
    /\ k_calls < MaxBatchCalls
    /\ \E questions \in RouterQuestionLists :
          \E oracle \in BatchOracles(questions) :
              LET r == SMERoutingAgentRun(tasks,
                           [EmptyPayload EXCEPT !.questions = questions], oracle)
              IN  BatchCalled("router", questions, oracle, r, r.raised)

\* The record the batches belong to is posted as a new RFP
SeedForBatch == create_rfp({ "INITIATED" })

BatchNext ==
    \/ SeedForBatch
    \/ BreakdownForBatch
    \/ CallWriter
    \/ CallLegal
    \/ CallQuality
    \/ CallRouter

SpecBatch == Init /\ [][BatchNext]_vars

(***************************************************************************)
(* Specification SpecSales: direct calls of SalesAgent.run, without a      *)
(* record id (intake) and with one (enrichment)                            *)
(***************************************************************************)

\* Bound on the number of SalesAgent.run calls
MaxSalesCalls == 2

IntakePayload(title, client_name, client_contact, due_date, industry, metadata) ==
    [EmptyPayload EXCEPT !.title = title, !.client_name = client_name,
                         !.client_contact = client_contact,
                         !.due_date = due_date, !.industry = industry,
                         !.metadata = metadata]

SalesPayloads ==
    { IntakePayload(None, None, None, None, None, EmptyMap),
      IntakePayload("Cloud RFP", "Acme", None, None, None, EmptyMap),
      IntakePayload("Cloud RFP", "Acme", "a@acme.io", "2026-01-31", "retail", EmptyMap),
      IntakePayload("Renamed RFP", None, None, None, None, EmptyMap),
      IntakePayload(None, "Initech", None, None, None, EmptyMap),
      IntakePayload("", "Acme", None, None, None, EmptyMap),
      IntakePayload("Cloud RFP", "", None, None, None, EmptyMap),
      IntakePayload(None, None, "b@acme.io", None, None, EmptyMap),
      IntakePayload(None, None, None, "2026-02-28", None, EmptyMap),
      IntakePayload(None, None, None, None, None, [region |-> "EU"]),
      IntakePayload(None, None, None, None, None, [industry |-> "finance"]) }

SalesIds == { NoneId, Str(1), Str(2), BadIdStr }

\* SalesAgent().run(BaseAgentInput(rfp_id=id, payload=p))
CallSales ==
    /\ s_calls < MaxSalesCalls
    /\ \E id \in SalesIds, p \in SalesPayloads :
          LET r == SalesAgentRun(rfps, id, p)
          IN  /\ rfps' = r.rfps
              /\ s_result' = r.result
              /\ s_in' = << id, p >>
    /\ s_before' = rfps
    /\ s_calls' = s_calls + 1
    /\ UNCHANGED << tasks, run_vars, apply_vars, table_vars, bdm_vars,
                    batch_vars, conc_vars, pair_vars, search_vars, race_vars >>

\* Records posted through the HTTP front end before the agent is called
SeedForSales == s_calls = 0 /\ create_rfp(SeedStatuses)

SalesNext == SeedForSales \/ CallSales

SpecSales == Init /\ [][SalesNext]_vars

(***************************************************************************)
(* Specification SpecConc: two processes (two invocations of the command   *)
(* line, or one of them and the server) each run BDMReviewAgent.run or     *)
(* SalesAgent.run for the same stored record.  The agents take no lock and *)
(* open no transaction, so the database sees their find_one, insert_one    *)
(* and update_one calls one at a time, interleaved in any order.           *)
(***************************************************************************)

\* The record both processes address
SharedId == Str(1)

ConcJobs ==
    { [agent |-> "bdm", payload |-> [EmptyPayload EXCEPT !.sections = << Titled1 >>]],
      [agent |-> "bdm",
       payload |-> [EmptyPayload EXCEPT !.sections = << Titled2, Titled3 >>]],
      [agent |-> "sales",
       payload |-> IntakePayload(None, None, None, None, None, [region |-> "EU"])],
      [agent |-> "sales",
       payload |-> IntakePayload(None, None, None, None, None, [segment |-> "public"])],
      [agent |-> "sales",
       payload |-> IntakePayload(None, None, "b@acme.io", None, None, EmptyMap)] }

\* The process is started: agent.run(BaseAgentInput(rfp_id, payload))
ConcStart(p) ==
    /\ c_pc[p] = "idle"
    /\ \E job \in ConcJobs :
          c_job' = [c_job EXCEPT ![p] = job]
    /\ c_pc' = [c_pc EXCEPT ![p] = "find"]
    /\ UNCHANGED << c_doc, c_ids >>
    /\ UNCHANGED << store_vars, run_vars, apply_vars, table_vars, bdm_vars,
                    batch_vars, sales_vars, pair_vars, search_vars, race_vars >>

\* db.rfps.find_one({"_id": oid}): bdm.py line 83, sales.py line 113; the
\* agent returns a failure when there is no such record, and SalesAgent
\* returns when it has no updates
ConcFind(p) ==
    /\ c_pc[p] = "find"
    /\ IF ObjectId(SharedId) \notin DOMAIN rfps
       THEN /\ c_pc' = [c_pc EXCEPT ![p] = "failed"]
            /\ UNCHANGED c_doc
       ELSE LET doc == rfps[ObjectId(SharedId)]
            IN  /\ c_doc' = [c_doc EXCEPT ![p] = doc]
                /\ c_pc' = [c_pc EXCEPT ![p] =
                      IF c_job[p].agent = "bdm"
                      THEN (IF c_job[p].payload.sections = << >>
                            THEN "failed" ELSE "insert")
                      ELSE (IF DOMAIN SalesUpdates(doc, c_job[p].payload) = {}
                            THEN "done" ELSE "update")]
    /\ UNCHANGED << c_job, c_ids >>
    /\ UNCHANGED << store_vars, run_vars, apply_vars, table_vars, bdm_vars,
                    batch_vars, sales_vars, pair_vars, search_vars, race_vars >>

\* One iteration of the loop of BDMReviewAgent.run: db.tasks.insert_one
ConcInsert(p) ==
    /\ c_pc[p] = "insert"
    /\ LET sections == c_job[p].payload.sections
           section == sections[Len(c_ids[p]) + 1]
           r == InsertAll(tasks, SectionTasks(SharedId, section), c_ids[p])
       IN  /\ tasks' = r.tasks
           /\ c_ids' = [c_ids EXCEPT ![p] = r.ids]
           /\ c_pc' = [c_pc EXCEPT ![p] =
                 IF Len(r.ids) = Len(sections) THEN "update" ELSE "insert"]
    /\ UNCHANGED << rfps, c_job, c_doc >>
    /\ UNCHANGED << run_vars, apply_vars, table_vars, bdm_vars,
                    batch_vars, sales_vars, pair_vars, search_vars, race_vars >>

\* db.rfps.update_one({"_id": oid}, {"$set": ...}): bdm.py line 133 writes
\* the list built from the document read earlier, sales.py line 178 the
\* sub-documents merged from the document read earlier
ConcUpdate(p) ==
    /\ c_pc[p] = "update"
    /\ LET oid == ObjectId(SharedId)
       IN  rfps' = [rfps EXCEPT ![oid] =
              IF c_job[p].agent = "bdm"
              THEN SetFields(@, [tasks |-> c_doc[p].tasks \o TaskRefs(c_ids[p])])
              ELSE SetFields(@, SalesUpdates(c_doc[p], c_job[p].payload))]
    /\ c_pc' = [c_pc EXCEPT ![p] = "done"]
    /\ UNCHANGED << tasks, c_job, c_doc, c_ids >>
    /\ UNCHANGED << run_vars, apply_vars, table_vars, bdm_vars,
                    batch_vars, sales_vars, pair_vars, search_vars, race_vars >>

\* Records posted through the HTTP front end before the processes start
SeedForConc ==
    /\ \A p \in Procs : c_pc[p] = "idle"
    /\ create_rfp(SeedStatuses)

ConcNext ==
    \/ SeedForConc
    \/ \E p \in Procs : ConcStart(p)
    \/ \E p \in Procs : ConcFind(p)
    \/ \E p \in Procs : ConcInsert(p)
    \/ \E p \in Procs : ConcUpdate(p)

SpecConc == Init /\ [][ConcNext]_vars

(***************************************************************************)
(* Specification SpecAgents: one direct call of any of the six agents, on  *)
(* an empty store, on a store holding a record, or on one holding a record *)
(* and the tasks of its breakdown.                                         *)
(***************************************************************************)

\* Bound on the number of agent calls, all agents together
MaxAgentCalls == 1

AgentCallAllowed == s_calls + b_calls + k_calls < MaxAgentCalls

\* Records are posted and broken down before the agents are called
SeedForAgents ==
    /\ s_calls + b_calls + k_calls = 0
    /\ create_rfp(SeedStatuses)

BreakdownForAgents ==
    /\ s_calls + b_calls + k_calls = 0
    /\ BreakdownForBatch

AgentsNext ==
    \/ SeedForAgents
    \/ BreakdownForAgents
    \/ (AgentCallAllowed /\ CallSales)
    \/ (AgentCallAllowed /\ CallBdm)
    \/ (AgentCallAllowed /\ CallRouter)
    \/ (AgentCallAllowed /\ CallWriter)
    \/ (AgentCallAllowed /\ CallLegal)
    \/ (AgentCallAllowed /\ CallQuality)

SpecAgents == Init /\ [][AgentsNext]_vars

(***************************************************************************)
(* Specification SpecRetry: run_flow is called, and once it has returned   *)
(* it is called again with the same arguments; records may be posted       *)
(* through the HTTP front end before and between the two calls.            *)
(***************************************************************************)

\* The first call of run_flow
RunFlowFirst == runs = 0 /\ RunFlowStart

\* The caller keeps the state run_flow returned
CallerKeeps ==
    /\ pc = "returned"
    /\ p_state' = state
    /\ p_results' = results
    /\ pc' = "idle"
    /\ state' = EmptyMap
    /\ run_rfp_id' = NoneId
    /\ invoked' = << >>
    /\ results' = << >>
    /\ start_rfps' = EmptyMap
    /\ UNCHANGED << store_vars, runs, apply_vars, table_vars, bdm_vars,
                    batch_vars, sales_vars, conc_vars, search_vars, race_vars >>

\* The caller is done with the exception run_flow raised
CallerCatches == pc = "raised" /\ CallerDone

\* run_flow(rfp_id, payload, context) again, with the arguments of the call
\* that returned p_state
RunFlowRetry ==
    /\ NoRunInFlight
    /\ p_state # EmptyMap
    /\ runs < MaxRuns
    /\ run_rfp_id' = p_state.rfp_id
    /\ state' = [rfp_id |-> p_state.rfp_id, payload |-> p_state.payload,
                 context |-> p_state.context]
    /\ pc' = EntryPoint
    /\ invoked' = << >>
    /\ results' = << >>
    /\ start_rfps' = rfps
    /\ runs' = runs + 1
    /\ a_last' = NoCall
    /\ a_same' = FALSE
    /\ a_prev_rfps' = EmptyMap
    /\ UNCHANGED << store_vars, table_vars, bdm_vars, ext_vars >>

RetryNext ==
    \/ create_rfp(SeedStatuses)
    \/ RunFlowFirst
    \/ RunFlowRetry
    \/ run_sales_agent
    \/ run_bdm_agent
    \/ run_sme_router
    \/ RunFlowFinish
    \/ CallerKeeps
    \/ CallerCatches

SpecRetry == Init /\ [][RetryNext]_vars

(***************************************************************************)
(* Specification SpecLive: one run_flow call under the scheduling of the   *)
(* event loop: graph.ainvoke awaits each node in turn and run_flow goes    *)
(* on after it, so a node that can run does run.                           *)
(***************************************************************************)

LiveNext ==
    \/ create_rfp(SeedStatuses)
    \/ RunFlowFirst
    \/ run_sales_agent
    \/ run_bdm_agent
    \/ run_sme_router
    \/ RunFlowFinish
    \/ CallerDone

SpecLive ==
    /\ Init
    /\ [][LiveNext]_vars
    /\ WF_vars(run_sales_agent)
    /\ WF_vars(run_bdm_agent)
    /\ WF_vars(run_sme_router)
    /\ WF_vars(RunFlowFinish)

(***************************************************************************)
(* Specification SpecSearch: the similarity search over the knowledge      *)
(* base.  The repository builds the aggregation pipeline; the collection   *)
(* executes it.  An embedding is a point on a line and the score of a      *)
(* document is the higher the nearer its embedding is to the query.        *)
(***************************************************************************)

\* Bound on the number of documents in the knowledge base
MaxCorpus == 3

\* Bound on the limit a search is called with
MaxLimit == 2

\* The embedding and query vectors
Vectors == 1..3

\* The candidate pool size search_knowledge_base passes
num_candidates == 200

Smaller(a, b) == IF a <= b THEN a ELSE b

\* vectorSearchScore of an embedding against a query vector
vectorSearchScore(query, embedding) ==
    IF query >= embedding THEN 100 - 10 * (query - embedding)
    ELSE 100 - 10 * (embedding - query)

\* The projection search_knowledge_base passes, applied to one document
\* the search stage matched
kb_projection(doc, query) ==
    [_id |-> doc._id, team_key |-> doc.team_key,
     score |-> vectorSearchScore(query, doc.embedding)]

\* What the $vectorSearch stage can hand on: the `limit` nearest of the
\* candidates, nearest first.  The stage documents no order among
\* documents of equal score, so every order of them is a possible output.
vectorSearchStage(docs, query, candidates, limit) ==
    LET n == Smaller(limit, Smaller(candidates, Len(docs)))
        sc(i) == vectorSearchScore(query, docs[i].embedding)
    IN  { [i \in 1..n |-> docs[r[i]]] :
            r \in { f \in [1..n -> 1..Len(docs)] :
                      /\ \A i, j \in 1..n : i # j => f[i] # f[j]
                      /\ \A i, j \in 1..n : i < j => sc(f[i]) >= sc(f[j])
                      /\ \A i \in 1..n : \A m \in 1..Len(docs) :
                            (\A j \in 1..n : f[j] # m) => sc(f[i]) >= sc(m) } }

\* The $project stage
projectStage(docs, query) == [i \in 1..Len(docs) |-> kb_projection(docs[i], query)]

\* The $limit stage
limitStage(docs, limit) == SubSeq(docs, 1, Smaller(limit, Len(docs)))

\* The lists vector_search can return: the pipeline $vectorSearch, $project,
\* $limit run by the collection
vector_search(docs, query, limit, candidates) ==
    { limitStage(projectStage(found, query), limit) :
        found \in vectorSearchStage(docs, query, candidates, limit) }

\* A document is inserted into knowledge_base
KnowledgeStored ==
    /\ Len(kb) < MaxCorpus
    /\ \E e \in Vectors :
          kb' = Append(kb, [_id |-> Len(kb) + 1,
                            team_key |-> "sme_team_security",
                            embedding |-> e])
    /\ UNCHANGED << vs_query, vs_limit, vs_out >>
    /\ UNCHANGED << store_vars, run_vars, apply_vars, table_vars, bdm_vars,
                    batch_vars, sales_vars, conc_vars, pair_vars, race_vars >>

\* search_knowledge_base(query_vector, limit)
search_knowledge_base ==
    /\ \E query \in Vectors, limit \in 1..MaxLimit :
          /\ vs_query' = query
          /\ vs_limit' = limit
          /\ vs_out' \in vector_search(kb, query, limit, num_candidates)
    /\ UNCHANGED kb
    /\ UNCHANGED << store_vars, run_vars, apply_vars, table_vars, bdm_vars,
                    batch_vars, sales_vars, conc_vars, pair_vars, race_vars >>

SearchNext == KnowledgeStored \/ search_knowledge_base

SpecSearch == Init /\ [][SearchNext]_vars

(***************************************************************************)
(* Specification SpecRace: several callers inside apply_workflow_transition *)
(* at once, each between its find_one and its update_one.                  *)
(***************************************************************************)

RaceIds == { Str(1) }

RaceStatuses == { "LINKED_TO_RFP", "RFP_BREAKDOWN", "SME_QA" }

\* A mutant of the filter: the id is converted to the ObjectId it spells.
RfpFilter_oid(rfp_id) ==
    IF ObjectIdValid(rfp_id) THEN ObjectId(rfp_id) ELSE rfp_id

\* The value the filter {"_id": rfp_id} of find_one and update_one compares
\* a record's _id with: the string as passed
RfpFilter(rfp_id) == rfp_id

\* db.rfps.find_one({"_id": rfp_id}): the document, or none
find_one_rfp(coll, rfp_id) ==
    IF RfpFilter(rfp_id) \in DOMAIN coll THEN coll[RfpFilter(rfp_id)] ELSE EmptyMap

\* db.rfps.update_one({"_id": rfp_id}, {"$set": {"status": value}})
update_one_status(coll, rfp_id, value) ==
    IF RfpFilter(rfp_id) \in DOMAIN coll
    THEN [coll EXCEPT ![RfpFilter(rfp_id)].status = value]
    ELSE coll

\* Lines 80-86: the call starts; a missing id or status and a value that is
\* no stage return at once
RaceCall(p) ==
    /\ r_pc[p] = "idle"
    /\ \E id \in RaceIds, nxt \in RaceStatuses :
          /\ r_call' = [r_call EXCEPT ![p] = << id, nxt >>]
          /\ r_pc' = [r_pc EXCEPT ![p] =
                        IF ~IdTruthy(id) \/ ~Truthy(nxt) \/ nxt \notin RFPStatus
                        THEN "returned" ELSE "find_one"]
    /\ UNCHANGED r_doc
    /\ UNCHANGED << store_vars, run_vars, apply_vars, table_vars, bdm_vars,
                    batch_vars, sales_vars, conc_vars, pair_vars, search_vars >>

\* Line 89: rfp = db.rfps.find_one({"_id": rfp_id})
RaceFind(p) ==
    /\ r_pc[p] = "find_one"
    /\ r_doc' = [r_doc EXCEPT ![p] = find_one_rfp(rfps, r_call[p][1])]
    /\ r_pc' = [r_pc EXCEPT ![p] = "check"]
    /\ UNCHANGED r_call
    /\ UNCHANGED << store_vars, run_vars, apply_vars, table_vars, bdm_vars,
                    batch_vars, sales_vars, conc_vars, pair_vars, search_vars >>

\* Lines 90-103: on the document read at line 89, `if not rfp: return`, the
\* stage of its status, can_transition, and update_one
RaceCheckAndWrite(p) ==
    /\ r_pc[p] = "check"
    /\ rfps' = IF r_doc[p] = EmptyMap THEN rfps
               ELSE IF r_doc[p].status \notin RFPStatus THEN rfps
               ELSE IF can_transition(r_doc[p].status, r_call[p][2])
                    THEN update_one_status(rfps, r_call[p][1], r_call[p][2])
                    ELSE rfps
    /\ r_pc' = [r_pc EXCEPT ![p] = "returned"]
    /\ UNCHANGED << r_call, r_doc, tasks >>
    /\ UNCHANGED << run_vars, apply_vars, table_vars, bdm_vars,
                    batch_vars, sales_vars, conc_vars, pair_vars, search_vars >>

\* Records are posted before the callers start
SeedForRace ==
    /\ \A p \in Racers : r_pc[p] = "idle"
    /\ create_rfp(SeedStatuses)

RaceNext ==
    \/ SeedForRace
    \/ \E p \in Racers : RaceCall(p)
    \/ \E p \in Racers : RaceFind(p)
    \/ \E p \in Racers : RaceCheckAndWrite(p)

SpecRace == Init /\ [][RaceNext]_vars

(***************************************************************************)
(* C1, C2: the transition table                                            *)
(***************************************************************************)

\* b follows a in the chain the module's docstring and the enum spell out
ChainSuccessor(a, b) ==
    \E i \in 1..(Len(RFPStatusMembers) - 1) :
        RFPStatusMembers[i] = a /\ RFPStatusMembers[i + 1] = b

\* C1: for every pair (a, b) of RFPStatus values can_transition(a, b) returns
\* true iff b is the chain successor of a; it returns false for every b when
\* a is SUBMITTED; get_next_valid_states(a) lists exactly the b for which
\* can_transition(a, b) is true.
C1_CanTransitionIffSuccessor ==
    /\ (t_op = "can" /\ t_from \in RFPStatus /\ t_to \in RFPStatus)
          => (t_can <=> ChainSuccessor(t_from, t_to))
    /\ (t_op = "can" /\ t_from = "SUBMITTED") => ~t_can
    /\ (t_op = "next" /\ t_from \in RFPStatus)
          => /\ Range(t_next) = {b \in RFPStatus : can_transition(t_from, b)}
             /\ Range(t_next) = {b \in RFPStatus : ChainSuccessor(t_from, b)}

C1_Witness ==
    /\ t_op = "can"
    /\ t_from = "QUALITY_REVIEW"
    /\ t_to = "FINAL_RFP"
    /\ t_can

NoDuplicates(seq) ==
    \A i, j \in 1..Len(seq) : seq[i] = seq[j] => i = j

\* C2: ALLOWED_TRANSITIONS is a simple chain: every state but SUBMITTED has
\* exactly one successor, SUBMITTED has none, no state succeeds itself, no
\* state succeeds two states, and the walk that follows successors from
\* INITIATED never revisits a state and can only stop at SUBMITTED after
\* visiting all 13 states.
C2_TableIsSimpleChain ==
    /\ \A s \in RFPStatus \ {"SUBMITTED"} : Len(ALLOWED_TRANSITIONS[s]) = 1
    /\ Len(ALLOWED_TRANSITIONS["SUBMITTED"]) = 0
    /\ DOMAIN ALLOWED_TRANSITIONS = RFPStatus
    /\ \A s \in RFPStatus : s \notin Range(ALLOWED_TRANSITIONS[s])
    /\ \A s1, s2 \in RFPStatus :
          (Range(ALLOWED_TRANSITIONS[s1]) \cap Range(ALLOWED_TRANSITIONS[s2]) # {})
             => s1 = s2
    /\ NoDuplicates(walk)
    /\ Range(walk) \subseteq RFPStatus
    /\ (get_next_valid_states(walk[Len(walk)]) = << >>)
          => /\ walk[Len(walk)] = "SUBMITTED"
             /\ Range(walk) = RFPStatus
             /\ Len(walk) = 13

C2_Witness ==
    /\ Len(walk) = 13
    /\ walk[13] = "SUBMITTED"
    /\ get_next_valid_states(walk[Len(walk)]) = << >>

(***************************************************************************)
(* C3 .. C6: applying the workflow transition                              *)
(***************************************************************************)

\* The record that agents address with the string id, if there is one
RecordOf(coll, id) ==
    IF ObjectIdValid(id) /\ ObjectId(id) \in DOMAIN coll
    THEN { ObjectId(id) } ELSE { }

\* next_status is a valid stage and the chain successor of the status that
\* the record addressed by id has in coll
ProposalLegal(coll, id, next_status) ==
    \E k \in RecordOf(coll, id) : ChainSuccessor(coll[k].status, next_status)

\* C3: across run_flow calls and direct apply_workflow_transition calls, no
\* record disappears and every step leaves a record's status as it was or
\* moves it to its chain successor; the step that applies the transition
\* returns normally, and when the proposed state is not the successor of the
\* record's status (or is no stage, or the record is missing) it leaves
\* every status unchanged.
C3_StatusUnchangedOrSuccessor ==
    [][ /\ \A k \in DOMAIN rfps :
              /\ k \in DOMAIN rfps'
              /\ \/ rfps'[k].status = rfps[k].status
                 \/ ChainSuccessor(rfps[k].status, rfps'[k].status)
        /\ pc = END =>
              /\ pc' = "returned"
              /\ ~ProposalLegal(rfps, run_rfp_id, StateGet(state, "next_state", None))
                    => rfps' = rfps
        /\ (pc = "idle" /\ a_last' # NoCall) =>
              (~ProposalLegal(rfps, a_last'[1], a_last'[2]) => rfps' = rfps)
      ]_vars

\* A run has returned whose proposal (RFP_BREAKDOWN for a record that was
\* not in BDM_REVIEW) was not the successor, and the status is as it was.
C3_Witness ==
    /\ pc = "returned"
    /\ "next_state" \in DOMAIN state
    /\ RecordOf(start_rfps, run_rfp_id) # {}
    /\ ~ProposalLegal(start_rfps, run_rfp_id, state.next_state)
    /\ \A k \in RecordOf(start_rfps, run_rfp_id) :
          rfps[k].status = start_rfps[k].status

\* C4: when run_flow is called with the id of a stored record and the
\* accumulated next_state is the chain successor of the record's status,
\* the record's stored status is that successor when run_flow returns.
C4_LegalTransitionApplied ==
    (/\ pc = "returned"
     /\ "next_state" \in DOMAIN state
     /\ ProposalLegal(start_rfps, run_rfp_id, StateGet(state, "next_state", None)))
        => \A k \in RecordOf(start_rfps, run_rfp_id) :
              rfps[k].status = state.next_state

\* The intake part of the end-to-end scenario: the run created one record,
\* with status INITIATED, and the pipeline suggests LINKED_TO_RFP.
NewRecordCreatedAndSuggested ==
    LET oid == NewOid(start_rfps)
    IN  /\ DOMAIN rfps = DOMAIN start_rfps \cup { oid }
        /\ oid \notin DOMAIN start_rfps
        /\ results[1].success
        /\ results[1].changes.rfp.status = "INITIATED"
        /\ results[1].changes.rfp.id = StrOfOid(oid)
        /\ "next_state" \in DOMAIN state
        /\ state.next_state = "LINKED_TO_RFP"

EndToEndCase ==
    /\ pc = "returned"
    /\ run_rfp_id = NoneId
    /\ Truthy(state.payload.title)
    /\ Truthy(state.payload.client_name)

\* C5: run_flow without a record id and with title and client_name creates
\* a record with status INITIATED, suggests LINKED_TO_RFP, and the new
\* record's stored status is LINKED_TO_RFP when run_flow returns.
C5_NewRecordIsAdvanced ==
    EndToEndCase =>
        /\ NewRecordCreatedAndSuggested
        /\ rfps[NewOid(start_rfps)].status = "LINKED_TO_RFP"

\* C6: a direct call of apply_workflow_transition that repeats the call
\* right before it (same record id, same proposed state) leaves the
\* collection as the first call left it.
C6_ApplyIdempotent ==
    a_same => rfps = a_prev_rfps

\* The same legal proposal for a stored record has been made twice in a row.
C6_Witness ==
    /\ a_same
    /\ RecordOf(rfps, a_last[1]) # {}
    /\ ProposalLegal(a_prev_rfps, a_last[1], a_last[2])

(***************************************************************************)
(* C7 .. C9: the pipeline and the merge                                    *)
(***************************************************************************)

InRun == pc \in Range(GraphNodes) \cup { END, "returned", "raised" }

\* The nodes before node n in the order build_graph wires them
NodesBefore(n) ==
    CASE n = "sales" -> << >>
      [] n = "bdm_review" -> << "sales" >>
      [] n = "sme_router" -> << "sales", "bdm_review" >>

\* C7: whatever success flags the agents return, the run invokes sales,
\* bdm_review and sme_router in turn: at each node exactly the nodes before
\* it have been invoked and have returned a result, and at the end of the
\* graph all three have.
C7_FailureDoesNotAbort ==
    /\ pc \in Range(GraphNodes) =>
          /\ invoked = NodesBefore(pc)
          /\ Len(results) = Len(invoked)
    /\ pc \in { END, "returned" } =>
          /\ invoked = GraphNodes
          /\ Len(results) = 3

\* A run reached the end of the graph although all three agents failed.
C7_Witness ==
    /\ pc = "returned"
    /\ Len(results) = 3
    /\ \A i \in 1..3 : ~results[i].success

\* The event keys an agent of the pipeline uses
EventKeys(node) ==
    CASE node = "sales" -> { "rfp_created", "rfp_updated_by_sales" }
      [] node = "bdm_review" -> { "rfp_breakdown_created" }
      [] node = "sme_router" -> { "sme_routing_completed" }

\* C8: during a run agent_changes and agent_events hold one entry per agent
\* that has returned, in pipeline order: entry i is the changes (events) map
\* of the i-th agent's result, the empty map when that agent failed.
C8_ListsAppendOnly ==
    InRun =>
        LET ch == StateGet(state, "agent_changes", << >>)
            ev == StateGet(state, "agent_events", << >>)
        IN  /\ Len(ch) = Len(results)
            /\ Len(ev) = Len(results)
            /\ \A i \in 1..Len(results) :
                  /\ ch[i] = results[i].changes
                  /\ ev[i] = results[i].events
                  /\ DOMAIN ev[i] \subseteq EventKeys(GraphNodes[i])
                  /\ ~results[i].success => DOMAIN ev[i] = {} /\ DOMAIN ch[i] = {}

\* Three entries after three agents, the first one empty (intake failed),
\* the last one the routing event.
C8_Witness ==
    /\ pc = "returned"
    /\ Len(state.agent_events) = 3
    /\ Len(state.agent_changes) = 3
    /\ ~results[1].success
    /\ DOMAIN state.agent_events[1] = {}
    /\ DOMAIN state.agent_events[3] = { "sme_routing_completed" }

\* The results, among the first n, that supply a next_state
Suppliers(n) == { i \in 1..n : Truthy(results[i].next_state) }

Maximum(S) == CHOOSE x \in S : \A y \in S : y <= x

\* C9: the accumulated next_state is that of the last merged result that
\* supplied a non-empty one; the key is absent while none has.
C9_NextStateLastWriterWins ==
    LET sup == Suppliers(Len(results))
    IN  IF sup = {}
        THEN "next_state" \notin DOMAIN state
        ELSE /\ "next_state" \in DOMAIN state
             /\ state.next_state = results[Maximum(sup)].next_state

\* Two results supplied a state, a later failed one supplied none: the
\* second suggestion stands.
C9_Witness ==
    /\ Len(results) = 3
    /\ results[1].next_state = "LINKED_TO_RFP"
    /\ results[2].next_state = "RFP_BREAKDOWN"
    /\ ~results[3].success
    /\ results[3].next_state = None
    /\ state.next_state = "RFP_BREAKDOWN"

(***************************************************************************)
(* C10: breakdown of a batch with an untitled section                      *)
(***************************************************************************)

Untitleds(sections) == { i \in 1..Len(sections) : ~Truthy(sections[i].title) }

\* The last breakdown call was given 3 titled sections and 1 section
\* without a title, for a stored record.
PartialBatchCase ==
    /\ b_calls > 0
    /\ Len(b_in[2]) = 4
    /\ Cardinality(Untitleds(b_in[2])) = 1
    /\ RecordOf(b_before.rfps, b_in[1]) # {}

Created == DOMAIN tasks \ DOMAIN b_before.tasks

BatchReturned == k_agent # "none" /\ ~k_raised

\* The question reaches the embedding call: it has a task id and a text
QuestionValid(q) == IdTruthy(q.task_id) /\ StripText(q.text) # ""

\* The items of the last batch call that were validly processed: the work
\* item named by a well-formed id existed and was updated (for routing: the
\* question was also embedded, matched to a team and routed)
ValidlyProcessed ==
    { i \in 1..Len(k_in) :
        /\ IdTruthy(k_in[i].task_id)
        /\ ObjectIdValid(k_in[i].task_id)
        /\ ObjectId(k_in[i].task_id) \in DOMAIN k_before
        /\ k_agent = "router" =>
              /\ QuestionValid(k_in[i])
              /\ k_oracle[i].embed = "ok"
              /\ k_oracle[i].search = "ok"
              /\ k_oracle[i].results # << >>
              /\ Truthy(k_oracle[i].results[1].team_key) }

\* C11: for every batch agent the result's success flag is true iff at
\* least one item of the batch was validly processed; a non-empty batch in
\* which every item is skipped yields success = false.
C11_SuccessIffAnyProcessed ==
    BatchReturned => (k_result.success <=> ValidlyProcessed # {})

\* The per-item entries of the event the last batch call returned
ItemEntries ==
    CASE k_agent = "router" ->
            k_result.events.sme_routing_completed.details
      [] k_agent = "writer" ->
            k_result.events.content_drafted.draft_results
      [] k_agent = "legal" ->
            k_result.events.legal_review_completed.review_results
      [] k_agent = "quality" ->
            k_result.events.quality_review_completed.quality_results

\* C12: every item of a batch is reported individually: for each input item
\* (skipped ones included) the returned events hold an entry that names the
\* item and gives its outcome.
C12_SkippedItemsReported ==
    (BatchReturned /\ k_in # << >>) =>
        /\ Len(ItemEntries) = Len(k_in)
        /\ \A i \in 1..Len(k_in) :
              \E j \in 1..Len(ItemEntries) :
                  /\ ItemEntries[j].task_id = k_in[i].task_id
                  /\ "status" \in DOMAIN ItemEntries[j]

\* The status the routing agent is to give a question on which the
\* embedding or the search failed ("any": the search call itself failed,
\* for which no status is named)
FailureStatus(o) ==
    CASE o.embed = "fail" -> { "embedding_failed" }
      [] o.search = "raise" -> { "embedding_failed", "no_match", "no_team_in_match",
                                 "search_failed" }
      [] o.results = << >> -> { "no_match" }
      [] ~Truthy(o.results[1].team_key) -> { "no_team_in_match" }
      [] OTHER -> { "routed", "invalid_task_id", "task_not_found" }

\* C13: in the routing agent a failure on one question (embedding fails,
\* search fails, no match, no team in the top match) marks only that
\* question with its own status, every later question is still processed
\* (each valid question has its entry, in order), and the agent returns a
\* result instead of raising.
C13_QuestionFailureIsolated ==
    (k_agent = "router" /\ k_in # << >>) =>
        /\ ~k_raised
        /\ LET valid == { i \in 1..Len(k_in) : QuestionValid(k_in[i]) }
               details == k_result.events.sme_routing_completed.details
           IN  /\ Len(details) = Cardinality(valid)
               /\ \A i \in valid :
                     LET j == Cardinality({ h \in valid : h <= i })
                     IN  /\ details[j].task_id = k_in[i].task_id
                         /\ details[j].status \in FailureStatus(k_oracle[i])

\* C14: QualityAgent suggests FINAL_RFP iff the aggregate score it reports
\* is at least 0.85 (85 hundredths), and it never suggests any other state.
C14_QualityGateAt85 ==
    (k_agent = "quality") =>
        /\ k_result.next_state \in { "FINAL_RFP", None }
        /\ k_in = << >> => k_result.next_state = None
        /\ k_in # << >> =>
              LET avg == k_result.changes.quality_score
              IN  /\ avg.den > 0
                  /\ (k_result.next_state = "FINAL_RFP")
                        <=> (avg.num >= 85 * avg.den)

\* A batch whose aggregate is exactly 0.85 (scores 0.90 and 0.80) got
\* FINAL_RFP.
C14_Witness ==
    /\ k_agent = "quality"
    /\ Len(k_in) = 2
    /\ k_result.changes.quality_score.num = 85 * k_result.changes.quality_score.den
    /\ k_result.next_state = "FINAL_RFP"

\* The sum of the scores of the items of k_in with index in S
RECURSIVE ScoreSum(_)
ScoreSum(S) ==
    IF S = {} THEN 0
    ELSE LET i == CHOOSE i \in S : TRUE
         IN  perform_quality_review(k_in[i]).quality_score + ScoreSum(S \ {i})

\* C15: the aggregate score QualityAgent compares with the threshold is the
\* average of the per-item scores over exactly the processed items: skipped
\* items and items whose work item was not found count neither in the sum
\* nor in the divisor.
C15_AverageOverProcessed ==
    (k_agent = "quality" /\ k_in # << >>) =>
        LET avg == k_result.changes.quality_score
            n == Cardinality(ValidlyProcessed)
        IN  /\ n > 0 => avg.num * n = ScoreSum(ValidlyProcessed) * avg.den
            /\ n = 0 => avg.num = 0

(***************************************************************************)
(* C16, C17: intake and enrichment                                         *)
(***************************************************************************)

IntakeCase == s_calls > 0 /\ s_in[1] = NoneId

\* C16: SalesAgent.run without a record id returns success = false and
\* leaves the record store unchanged when the payload lacks a non-empty
\* title or a non-empty client_name; otherwise it inserts exactly one
\* record, with status INITIATED and the payload's title and client name,
\* and suggests next_state LINKED_TO_RFP.
C16_IntakeRequiresTitleAndClient ==
    IntakeCase =>
        LET p == s_in[2]
            new == DOMAIN rfps \ DOMAIN s_before
        IN  IF p.title \in { None, "" } \/ p.client_name \in { None, "" }
            THEN /\ ~s_result.success
                 /\ rfps = s_before
            ELSE /\ s_result.success
                 /\ Cardinality(new) = 1
                 /\ DOMAIN s_before \subseteq DOMAIN rfps
                 /\ \A k \in DOMAIN s_before : rfps[k] = s_before[k]
                 /\ \A k \in new :
                       /\ rfps[k].status = "INITIATED"
                       /\ rfps[k].title = p.title
                       /\ rfps[k].client.name = p.client_name
                 /\ s_result.next_state = "LINKED_TO_RFP"

\* An intake with title and client name added a second record to the store.
C16_Witness ==
    /\ IntakeCase
    /\ s_result.success
    /\ Cardinality(DOMAIN s_before) = 1
    /\ Cardinality(DOMAIN rfps) = 2
    /\ s_result.next_state = "LINKED_TO_RFP"

EnrichCase ==
    /\ s_calls > 0
    /\ s_in[1] # NoneId
    /\ RecordOf(s_before, s_in[1]) # {}

\* C17: SalesAgent.run with the id of a stored record leaves every field
\* and sub-field whose value is absent from the payload as it was: title,
\* client.name, client.contact, timeline.received_date, timeline.due_date,
\* each metadata key, status, tasks; no other record changes and none is
\* added.
C17_AbsentFieldsUntouched ==
    (s_calls > 0 /\ s_in[1] # NoneId) =>
        /\ DOMAIN rfps = DOMAIN s_before
        /\ \A k \in DOMAIN s_before \ RecordOf(s_before, s_in[1]) :
              rfps[k] = s_before[k]
        /\ \A k \in RecordOf(s_before, s_in[1]) :
              LET p == s_in[2]
                  old == s_before[k]
                  now == rfps[k]
              IN  /\ p.title = None => now.title = old.title
                  /\ p.client_name = None => now.client.name = old.client.name
                  /\ p.client_contact = None => now.client.contact = old.client.contact
                  /\ p.received_date = None =>
                        now.timeline.received_date = old.timeline.received_date
                  /\ p.due_date = None => now.timeline.due_date = old.timeline.due_date
                  /\ \A m \in DOMAIN old.metadata \ DOMAIN p.metadata :
                        m \in DOMAIN now.metadata /\ now.metadata[m] = old.metadata[m]
                  /\ now.status = old.status
                  /\ now.tasks = old.tasks
                  /\ now.history = old.history

\* A record holding a contact, a due date and an industry was given a new
\* client name only: the name changed, the rest stayed.
C17_Witness ==
    /\ EnrichCase
    /\ s_in[2].client_name = "Initech"
    /\ \A k \in RecordOf(s_before, s_in[1]) :
          /\ s_before[k].client.contact = "a@acme.io"
          /\ s_before[k].timeline.due_date = "2026-01-31"
          /\ rfps[k].client.name = "Initech"
          /\ rfps[k].client.contact = "a@acme.io"
          /\ rfps[k].timeline.due_date = "2026-01-31"
          /\ rfps[k].metadata.industry = "retail"

(***************************************************************************)
(* C18: breakdown                                                          *)
(***************************************************************************)

BreakdownCase == b_calls > 0 /\ RecordOf(b_before.rfps, b_in[1]) # {}

\* C18: BDMReviewAgent.run on a stored record with a non-empty sections
\* list creates exactly one work item per section (type RFP_BREAKDOWN when
\* the section's task_type is no TaskType), sets the record's task
\* references to the previous list followed by one reference per created
\* work item in section order, and suggests RFP_BREAKDOWN; with an empty
\* sections list it returns success = false and creates no work item.
C18_OneTaskPerSectionAppended ==
    BreakdownCase =>
        \A k \in RecordOf(b_before.rfps, b_in[1]) :
            LET secs == b_in[2]
                n == Len(secs)
            IN  IF secs = << >>
                THEN /\ ~b_result.success
                     /\ Created = {}
                     /\ rfps[k] = b_before.rfps[k]
                ELSE LET ids == b_result.changes.created_task_ids
                     IN  /\ b_result.success
                         /\ Len(ids) = n
                         /\ Cardinality(Created) = n
                         /\ Created = { ObjectId(ids[i]) : i \in 1..n }
                         /\ \A i \in 1..n :
                               /\ tasks[ObjectId(ids[i])].rfp_id = b_in[1]
                               /\ tasks[ObjectId(ids[i])].type =
                                     IF secs[i].task_type \in TaskType
                                     THEN secs[i].task_type ELSE "RFP_BREAKDOWN"
                         /\ rfps[k].tasks =
                               b_before.rfps[k].tasks \o
                               [i \in 1..n |-> [task_id |-> ids[i],
                                                source |-> "BDMReviewAgent"]]
                         /\ b_result.next_state = "RFP_BREAKDOWN"

\* The second breakdown of a record, with four sections of which the last
\* has an unknown task_type: four references follow the earlier ones.
C18_Witness ==
    /\ BreakdownCase
    /\ Len(b_in[2]) = 4
    /\ b_in[2][4].task_type = "NO_SUCH_TYPE"
    /\ b_result.success
    /\ \A k \in RecordOf(b_before.rfps, b_in[1]) :
          /\ b_before.rfps[k].tasks # << >>
          /\ Len(rfps[k].tasks) = Len(b_before.rfps[k].tasks) + 4
    /\ \E t \in Created : tasks[t].type = "RFP_BREAKDOWN" /\ tasks[t].title = "Untitled section"

(***************************************************************************)
(* C19: concurrent runs on one record                                      *)
(***************************************************************************)

\* Both processes ran their agent on the shared record to the end.
BothRunsDone == \A p \in Procs : c_pc[p] = "done"

\* C19: when two runs whose breakdown or enrichment step targets the same
\* record interleave in any order, the record afterwards holds what both
\* wrote: the task references of every work item either breakdown created,
\* and every metadata key and client field either enrichment supplied
\* (where both supplied the same key, one of the two values).
C19_NoLostUpdate ==
    BothRunsDone =>
        LET rec == rfps[ObjectId(SharedId)]
        IN  \A p \in Procs :
                /\ c_job[p].agent = "bdm" =>
                      \A i \in 1..Len(c_ids[p]) :
                          \E j \in 1..Len(rec.tasks) :
                              rec.tasks[j].task_id = c_ids[p][i]
                /\ c_job[p].agent = "sales" =>
                      /\ \A m \in DOMAIN c_job[p].payload.metadata :
                            /\ m \in DOMAIN rec.metadata
                            /\ rec.metadata[m] \in
                                  { c_job[q].payload.metadata[m] :
                                      q \in { q \in Procs :
                                                m \in DOMAIN c_job[q].payload.metadata } }
                      /\ c_job[p].payload.client_contact # None =>
                            rec.client.contact \in
                                { c_job[q].payload.client_contact : q \in Procs }

(***************************************************************************)
(* C20: routing suggests no transition                                     *)
(***************************************************************************)

\* C20: whatever the payload and whatever embedding and search do, the
\* result SMERoutingAgent.run returns has next_state none, and the step of
\* the pipeline that runs it leaves the accumulated next_state as the
\* earlier agents left it (absent if they left none).
C20_RoutingSuggestsNoTransition ==
    [][ pc = "sme_router" =>
          /\ ("next_state" \in DOMAIN state') <=> ("next_state" \in DOMAIN state)
          /\ StateGet(state', "next_state", None) = StateGet(state, "next_state", None)
          /\ pc' = END => results'[Len(results')].next_state = None
      ]_vars

\* A run in which breakdown suggested RFP_BREAKDOWN and routing then routed
\* a question: the suggestion still stands.
C20_Witness ==
    /\ pc = "returned"
    /\ results[2].next_state = "RFP_BREAKDOWN"
    /\ results[3].success
    /\ results[3].changes.updated_task_ids # << >>
    /\ results[3].next_state = None
    /\ state.next_state = "RFP_BREAKDOWN"

(***************************************************************************)
(* C21: routing uses the top match only                                    *)
(***************************************************************************)

\* The loop of the last routing call got to question i and past its search
Searched(i) ==
    /\ \A j \in 1..i :
          ~(QuestionValid(k_in[j]) /\ k_oracle[j].embed = "ok"
              /\ k_oracle[j].search = "raise")
    /\ QuestionValid(k_in[i])
    /\ k_oracle[i].embed = "ok"

\* The search for question i returned results and the first carries a team
TopCarriesTeam(i) ==
    /\ Searched(i)
    /\ k_oracle[i].results # << >>
    /\ Truthy(k_oracle[i].results[1].team_key)

\* The questions of the last routing call that address stored task k and
\* whose top result carries a team
RoutedTo(k) ==
    { i \in 1..Len(k_in) :
        /\ TopCarriesTeam(i)
        /\ ObjectIdValid(k_in[i].task_id)
        /\ ObjectId(k_in[i].task_id) = k }

\* C21: after a routing call every stored work item addressed by a question
\* whose search returned a top result carrying a team has that top result's
\* team as its assigned team and that result's score and entry id in its
\* routing metadata (the last such question's, when several address it); a
\* work item no such question addresses is left as it was, whatever the
\* lower-ranked results carry.
C21_TopMatchOnly ==
    k_agent = "router" =>
        \A k \in DOMAIN k_before :
            IF RoutedTo(k) = {}
            THEN tasks[k] = k_before[k]
            ELSE LET top == k_oracle[Maximum(RoutedTo(k))].results[1]
                 IN  /\ tasks[k].assigned_to_team = top.team_key
                     /\ tasks[k].metadata.sme_routing.score = top.score
                     /\ tasks[k].metadata.sme_routing.matched_kb_id = top.kb_id

\* A question was routed by a search that returned two results carrying
\* different teams, and another by a search whose top result carried no
\* team while the second did.
C21_Witness ==
    /\ k_agent = "router"
    /\ ~k_raised
    /\ Len(k_in) = 2
    /\ { ObjectId(Str(1)), ObjectId(Str(2)) } \subseteq DOMAIN k_before
    /\ RoutedTo(ObjectId(Str(1))) = { 1 }
    /\ Len(k_oracle[1].results) = 2
    /\ k_oracle[1].results[2].team_key = "sme_team_security"
    /\ tasks[ObjectId(Str(1))].assigned_to_team = "sme_team_platform"
    /\ k_in[2].task_id = Str(2)
    /\ Searched(2)
    /\ Len(k_oracle[2].results) = 2
    /\ ~Truthy(k_oracle[2].results[1].team_key)
    /\ Truthy(k_oracle[2].results[2].team_key)
    /\ tasks[ObjectId(Str(2))] = k_before[ObjectId(Str(2))]

(***************************************************************************)
(* C22: expected invalid input                                             *)
(***************************************************************************)

\* The id is missing, is no ObjectId string, or names nothing stored in coll
IdResolvesToNothing(coll, id) ==
    ~IdTruthy(id) \/ ~ObjectIdValid(id) \/ ObjectId(id) \notin DOMAIN coll

\* The last SalesAgent call was given invalid input: an intake without
\* title or client name, or a record id that is malformed or unresolvable
SalesInputInvalid ==
    /\ s_calls > 0
    /\ IF s_in[1] = NoneId
       THEN ~Truthy(s_in[2].title) \/ ~Truthy(s_in[2].client_name)
       ELSE IdResolvesToNothing(s_before, s_in[1])

\* The last BDMReviewAgent call was given invalid input: no sections, or a
\* record id that is missing, malformed or unresolvable
BdmInputInvalid ==
    /\ b_calls > 0
    /\ (b_in[2] = << >> \/ IdResolvesToNothing(b_before.rfps, b_in[1]))

\* The last batch call was given invalid input: no items, or only items
\* whose work-item id is missing, malformed or unresolvable
BatchInputInvalid ==
    /\ k_agent # "none"
    /\ \A i \in 1..Len(k_in) : IdResolvesToNothing(k_before, k_in[i].task_id)

FailedWithMessage(result) == ~result.success /\ Truthy(result.message)

\* C22: an agent given expected invalid input (a missing required payload
\* field, an id that resolves to nothing, a malformed id) does not raise:
\* it returns a result with success = false and a message.
C22_InvalidInputFailsCleanly ==
    /\ SalesInputInvalid => FailedWithMessage(s_result)
    /\ BdmInputInvalid => FailedWithMessage(b_result)
    /\ BatchInputInvalid => (~k_raised /\ FailedWithMessage(k_result))

(***************************************************************************)
(* C23: the pipeline given a malformed record id                           *)
(***************************************************************************)

\* A run is at one of its agents and was given a malformed record id
AtAgentWithBadId == pc \in Range(GraphNodes) /\ run_rfp_id = BadIdStr

\* C23: in a run given a malformed record id every agent returns a result
\* with success = false, the run goes on to the next agent of the graph,
\* and no step of the run creates or changes a record or a work item.
C23_InvalidIdScenario ==
    [][ /\ AtAgentWithBadId =>
              /\ pc' = GraphEdge(pc)
              /\ Len(results') = Len(results) + 1
              /\ ~results'[Len(results')].success
        /\ (run_rfp_id = BadIdStr /\ pc \in Range(GraphNodes) \cup { END }) =>
              (rfps' = rfps /\ tasks' = tasks)
      ]_vars

(***************************************************************************)
(* C24: what the final state tells about the agents                        *)
(***************************************************************************)

\* The success flags of the agents of a run, in pipeline order
SuccessFlags(rs) == [i \in 1..Len(rs) |-> rs[i].success]

\* Two calls of run_flow have returned (the accumulated state carries the
\* arguments, so only calls with the same arguments can return equal states)
TwoRunsReturned == pc = "returned" /\ p_state # EmptyMap

\* C24: two runs in which some agent succeeded in one and failed in the
\* other return different final accumulated states.
C24_FinalStateTellsSuccess ==
    (TwoRunsReturned /\ SuccessFlags(results) # SuccessFlags(p_results))
        => state # p_state

(***************************************************************************)
(* C25: one run is a sequential chain                                      *)
(***************************************************************************)

\* The accumulated state holds the merged results of exactly n agents, the
\* n-th being the last one merged
Merged(n) ==
    /\ Len(results) = n
    /\ Len(StateGet(state, "agent_changes", << >>)) = n
    /\ Len(StateGet(state, "agent_events", << >>)) = n
    /\ n > 0 =>
          /\ state.last_message = results[n].message
          /\ state.last_success = results[n].success

\* C25: in a run the agents are invoked one after the other, each once, in
\* the order sales, bdm_review, sme_router: when an agent is about to start
\* exactly the agents before it have been invoked and their results have
\* been merged, and when the transition is about to be applied (and after)
\* all three have been invoked and merged.
C25_StrictlySequential ==
    InRun =>
        /\ Len(invoked) <= Len(GraphNodes)
        /\ invoked = SubSeq(GraphNodes, 1, Len(invoked))
        /\ pc \in Range(GraphNodes) =>
              /\ pc = GraphNodes[Len(invoked) + 1]
              /\ Merged(Len(invoked))
        /\ pc \in { END, "returned" } =>
              /\ invoked = GraphNodes
              /\ Merged(Len(GraphNodes))
        /\ pc = "raised" =>
              /\ invoked = GraphNodes
              /\ Merged(Len(GraphNodes) - 1)

\* A run in which all three agents succeeded is about to apply the
\* transition.
C25_Witness ==
    /\ pc = END
    /\ invoked = GraphNodes
    /\ Merged(3)
    /\ \A i \in 1..3 : results[i].success

(***************************************************************************)
(* C26: a value that is no stage                                           *)
(***************************************************************************)

\* The last direct call of apply_workflow_transition named a record and
\* proposed a value that is not one of the 13 stages
ProposedNoStage ==
    /\ a_last # NoCall
    /\ IdTruthy(a_last[1])
    /\ Truthy(a_last[2])
    /\ a_last[2] \notin RFPStatus

\* C26: apply_workflow_transition given a next state that is not an
\* RFPStatus value ends in a ValidationError, not in a normal return.
C26_InvalidStageRejected ==
    ProposedNoStage =>
        apply_workflow_transition_outcome(a_prev_rfps, a_last[1], a_last[2])
            = "ValidationError"

(***************************************************************************)
(* C27: the history log                                                    *)
(***************************************************************************)

\* The events of the maps in evs, in order (an agent returns at most one
\* event per result)
RECURSIVE EventsIn(_)
EventsIn(evs) ==
    IF evs = << >> THEN << >>
    ELSE LET m == Head(evs)
         IN  (IF DOMAIN m = {} THEN << >>
              ELSE << m[CHOOSE key \in DOMAIN m : TRUE] >>) \o EventsIn(Tail(evs))

\* A run given the id of a record stored when it started has returned
RunOnKnownRecordReturned ==
    pc = "returned" /\ RecordOf(start_rfps, run_rfp_id) # {}

\* C27: when a run on a known record has returned, the record's history is
\* the history it had when the run started followed by the events the
\* run's agents returned, in pipeline order.
C27_EventsFoldedIntoHistory ==
    RunOnKnownRecordReturned =>
        \A k \in RecordOf(start_rfps, run_rfp_id) :
            rfps[k].history =
                start_rfps[k].history
                    \o EventsIn(StateGet(state, "agent_events", << >>))

(***************************************************************************)
(* C28: routing determinism, and the empty corpus                          *)
(***************************************************************************)

\* The detail entries of the routing event the last call returned
RoutingDetails ==
    IF "sme_routing_completed" \in DOMAIN k_result.events
    THEN k_result.events.sme_routing_completed.details
    ELSE << >>

\* The last call was a routing call on an empty corpus: every search
\* returned, and returned nothing
EmptyCorpusCall ==
    /\ k_agent = "router"
    /\ \A i \in 1..Len(k_in) :
          k_oracle[i].search = "ok" /\ k_oracle[i].results = << >>

\* The questions of the last call that carry a text and were embedded
Embedded == { i \in 1..Len(k_in) :
                StripText(k_in[i].text) # "" /\ k_oracle[i].embed = "ok" }

\* The entry and team a routing event assigned to the question at position i
RoutedAs(details, i) ==
    { << details[j].kb_match_id, details[j].assigned_to_team >> :
        j \in { n \in 1..Len(details) :
                  /\ details[n].status = "routed"
                  /\ details[n].task_id = k_in[i].task_id } }

\* C28: a routing call that repeats the call before it, with the same
\* questions and searches that return the same results, assigns the same
\* top entry and team to every question both calls routed; and on an empty
\* corpus a routing call reports no_match for every question of the batch
\* that carries a text and was embedded.
C28_RoutingDeterminism ==
    /\ [][ (k_agent = "router" /\ k_agent' = "router" /\ k_calls' = k_calls + 1
              /\ k_in' = k_in /\ k_oracle' = k_oracle /\ ~k_raised /\ ~k_raised')
            => \A i \in 1..Len(k_in) :
                  \/ RoutedAs(RoutingDetails, i) = {}
                  \/ RoutedAs(RoutingDetails', i) = {}
                  \/ RoutedAs(RoutingDetails', i) = RoutedAs(RoutingDetails, i) ]_vars
    /\ [](EmptyCorpusCall =>
            /\ ~k_raised
            /\ \A i \in Embedded :
                  \E j \in 1..Len(RoutingDetails) :
                      /\ RoutingDetails[j].task_id = k_in[i].task_id
                      /\ RoutingDetails[j].status = "no_match")

(***************************************************************************)
(* C29: the order of the similarity search's results                       *)
(***************************************************************************)

\* C29: a similarity search returns at most `limit` documents, ordered by
\* descending score, and documents of equal score in the order they were
\* inserted into the corpus.
C29_RankedStableWithinLimit ==
    vs_limit > 0 =>
        /\ Len(vs_out) <= vs_limit
        /\ \A i, j \in 1..Len(vs_out) :
              i < j =>
                /\ vs_out[i].score >= vs_out[j].score
                /\ (vs_out[i].score = vs_out[j].score
                      => vs_out[i]._id < vs_out[j]._id)

(***************************************************************************)
(* C30: last_success and last_message                                      *)
(***************************************************************************)

\* run_flow has returned its final state
FlowReturned == pc = "returned" /\ Len(results) = Len(GraphNodes)

\* C30: in the state run_flow returns, last_success and last_message are
\* the success flag and the message of the result of the last agent,
\* sme_router, whatever the agents before it returned.
C30_LastAgentDecides ==
    FlowReturned =>
        /\ GraphNodes[Len(GraphNodes)] = "sme_router"
        /\ state.last_success = results[Len(GraphNodes)].success
        /\ state.last_message = results[Len(GraphNodes)].message

\* A run has returned in which the first agent failed and the last
\* succeeded
C30_Witness ==
    /\ FlowReturned
    /\ ~results[1].success
    /\ results[3].success
    /\ state.last_success
    /\ state.last_message # results[1].message

(***************************************************************************)
(* C31: callers racing in apply_workflow_transition                        *)
(***************************************************************************)

\* The place of a stage in the chain
ChainPosition(st) == CHOOSE i \in 1..Len(RFPStatusMembers) : RFPStatusMembers[i] = st

C32_AgentsGetCallersInput ==
    [][ (pc \in Range(GraphNodes)) =>
         (/\ state.rfp_id = run_rfp_id
          /\ { "rfp_id", "payload", "context" } \subseteq DOMAIN state'
          /\ state'.rfp_id = state.rfp_id
          /\ state'.payload = state.payload
          /\ state'.context = state.context
          /\ (pc = "bdm_review" /\ run_rfp_id = NoneId) =>
                /\ Len(results') = 2
                /\ ~results'[2].success
                /\ tasks' = tasks
                /\ rfps' = rfps)
      ]_vars

\* A run called without a record id and with sections in its payload:
\* intake created a record, breakdown failed after it
C32_Witness ==
    /\ pc = "sme_router"
    /\ run_rfp_id = NoneId
    /\ state.rfp_id = NoneId
    /\ Len(state.payload.sections) > 0
    /\ Len(results) = 2
    /\ results[1].success
    /\ "rfp" \in DOMAIN results[1].changes
    /\ ~results[2].success

(***************************************************************************)
(* C33: the status changes run_flow applies                                *)
(***************************************************************************)

SuggestedEdge ==
    [sales |-> << "INITIATED", "LINKED_TO_RFP" >>,
     bdm |-> << "BDM_REVIEW", "RFP_BREAKDOWN" >>,
     writer |-> << "CONTENT_DRAFT", "LEGAL_REVIEW" >>,
     legal |-> << "LEGAL_REVIEW", "QUALITY_REVIEW" >>,
     quality |-> << "QUALITY_REVIEW", "FINAL_RFP" >>]

\* The status of the record the last breakdown call named
BdmRecordStatus ==
    { b_before.rfps[k].status : k \in RecordOf(b_before.rfps, b_in[1]) }

\* C34: every agent suggests its own fixed stage or none, whatever the
\* status of the record: intake that created a record LINKED_TO_RFP, a
\* successful breakdown RFP_BREAKDOWN, successful drafting LEGAL_REVIEW,
\* successful compliance review QUALITY_REVIEW, quality review FINAL_RFP or
\* none; each agent's pair of stages is an edge of the table; and a
\* breakdown of a stored record with sections creates its work items
\* whatever the record's status.
C34_SuggestionsAreConstants ==
    /\ \A a \in DOMAIN SuggestedEdge :
          can_transition(SuggestedEdge[a][1], SuggestedEdge[a][2])
    /\ s_calls > 0 =>
          s_result.next_state =
              IF s_in[1] = NoneId /\ s_result.success
              THEN SuggestedEdge.sales[2] ELSE None
    /\ b_calls > 0 =>
          /\ b_result.next_state =
                IF b_result.success THEN SuggestedEdge.bdm[2] ELSE None
          /\ ~BdmInputInvalid =>
                /\ b_result.success
                /\ Cardinality(DOMAIN tasks) =
                      Cardinality(DOMAIN b_before.tasks) + Len(b_in[2])
    /\ (k_agent \in { "writer", "legal" } /\ ~k_raised) =>
          k_result.next_state =
              IF k_result.success THEN SuggestedEdge[k_agent][2] ELSE None
    /\ (k_agent = "quality" /\ ~k_raised) =>
          k_result.next_state \in { None, SuggestedEdge.quality[2] }

\* A breakdown of a record whose status is SUBMITTED created a work item
\* and suggested RFP_BREAKDOWN
C34_Witness ==
    /\ b_calls > 0
    /\ BdmRecordStatus = { "SUBMITTED" }
    /\ b_result.success
    /\ b_result.next_state = "RFP_BREAKDOWN"
    /\ DOMAIN tasks # DOMAIN b_before.tasks

(***************************************************************************)
(* C35: what drafting and compliance review return                         *)
(***************************************************************************)

\* The last call was a drafting or compliance-review call with items
DraftOrReviewCase ==
    /\ k_agent \in { "writer", "legal" }
    /\ ~k_raised
    /\ k_in # << >>

\* The id list that call returned
ReturnedIds ==
    IF k_agent = "writer" THEN k_result.changes.drafted_task_ids
    ELSE k_result.changes.reviewed_task_ids

\* The update of the item's work item matched a stored work item
UpdateMatched(id) ==
    /\ IdTruthy(id)
    /\ ObjectIdValid(id)
    /\ ObjectId(id) \in DOMAIN k_before

\* C35: drafting and compliance review given a non-empty tasks list return
\* success = true and suggest LEGAL_REVIEW and QUALITY_REVIEW, also when
\* they processed no item; the returned id list holds the id of an item
\* exactly when the update matched a stored work item, and each of these
\* work items has status COMPLETED after the call.
C35_DraftAndReviewResults ==
    DraftOrReviewCase =>
        /\ k_result.success
        /\ k_result.next_state =
              (IF k_agent = "writer" THEN "LEGAL_REVIEW" ELSE "QUALITY_REVIEW")
        /\ \A i \in 1..Len(k_in) :
              (k_in[i].task_id \in Range(ReturnedIds)) <=> UpdateMatched(k_in[i].task_id)
        /\ Range(ReturnedIds) \subseteq { k_in[i].task_id : i \in 1..Len(k_in) }
        /\ \A id \in Range(ReturnedIds) :
              /\ ObjectId(id) \in DOMAIN tasks
              /\ tasks[ObjectId(id)].status = "COMPLETED"

\* A drafting call with three items none of which was processed returned
\* success with an empty id list
C35_Witness ==
    /\ DraftOrReviewCase
    /\ k_agent = "writer"
    /\ Len(k_in) = 3
    /\ ReturnedIds = << >>
    /\ k_result.success
    /\ k_result.next_state = "LEGAL_REVIEW"
    /\ k_before # EmptyMap

(***************************************************************************)
(* C36: the routing agent's result                                         *)
(***************************************************************************)

\* The last call was a routing call that returned its event
RoutingReturned ==
    /\ k_agent = "router"
    /\ ~k_raised
    /\ "sme_routing_completed" \in DOMAIN k_result.events

RoutingStatuses ==
    { "embedding_failed", "no_match", "no_team_in_match", "invalid_task_id",
      "task_not_found", "routed" }

HasIdAndText(q) == IdTruthy(q.task_id) /\ StripText(q.text) # ""

IsRouted(d) == d.status = "routed"

TaskIdsOf(seq) == [i \in 1..Len(seq) |-> seq[i].task_id]

\* C36: in the result of a routing call, updated_task_ids lists the task
\* ids of the entries with status routed, in their order; num_routed is
\* their number and at most num_questions; the questions that have a task
\* id and a non-empty text have one detail entry each, in their order, with
\* one of the six statuses; and a work item differs from what it was
\* before the call only if an entry with its id is routed.
C36_RoutingResultConsistent ==
    RoutingReturned =>
        LET ev == k_result.events.sme_routing_completed
            routed == SelectSeq(RoutingDetails, IsRouted)
        IN  /\ k_result.changes.updated_task_ids = TaskIdsOf(routed)
            /\ ev.num_routed = Len(routed)
            /\ ev.num_questions = Len(k_in)
            /\ ev.num_routed <= ev.num_questions
            /\ TaskIdsOf(RoutingDetails) = TaskIdsOf(SelectSeq(k_in, HasIdAndText))
            /\ \A j \in 1..Len(RoutingDetails) :
                  RoutingDetails[j].status \in RoutingStatuses
            /\ \A k \in DOMAIN k_before :
                  tasks[k] # k_before[k] =>
                      \E j \in 1..Len(routed) :
                          /\ ObjectIdValid(routed[j].task_id)
                          /\ ObjectId(routed[j].task_id) = k

\* A routing call of two questions, one of them without text, routed the
\* other
C36_Witness ==
    /\ RoutingReturned
    /\ Len(k_in) = 2
    /\ Len(RoutingDetails) = 1
    /\ Len(SelectSeq(RoutingDetails, IsRouted)) = 1
    /\ Len(k_result.changes.updated_task_ids) = 1
    /\ \E k \in DOMAIN k_before : tasks[k] # k_before[k]
    /\ \E i \in 1..Len(k_in) : ~HasIdAndText(k_in[i])

(***************************************************************************)
(* C37: routing a completed work item                                      *)
(***************************************************************************)

\* The work items the last routing call routed
RoutedTasks ==
    { ObjectId(RoutingDetails[j].task_id) :
        j \in { n \in 1..Len(RoutingDetails) : IsRouted(RoutingDetails[n]) } }

\* C37: every work item a routing call routed has status PENDING after the
\* call, whatever its status was before, COMPLETED included.
C37_RoutingResetsToPending ==
    RoutingReturned =>
        \A k \in RoutedTasks :
            /\ k \in DOMAIN k_before
            /\ tasks[k].status = "PENDING"

\* A work item that drafting or review had marked COMPLETED was routed
\* and is PENDING again
C37_Witness ==
    /\ RoutingReturned
    /\ \E k \in RoutedTasks :
          /\ k_before[k].status = "COMPLETED"
          /\ ({ "writer_agent", "legal_agent" } \cap DOMAIN k_before[k].metadata) # {}
          /\ tasks[k].status = "PENDING"

(***************************************************************************)
(* C38: run_flow terminates                                                *)
(***************************************************************************)

\* The records whose status differs between the two collections
StatusChanged(before, after) ==
    { k \in DOMAIN before : k \in DOMAIN after /\ after[k].status # before[k].status }

\* C38: a run_flow call that has started comes to its end: it returns, or
\* an agent invocation raises; a run that returns has invoked exactly three
\* agents; and no step of a run before the end of the graph changes a
\* status, while the step after it changes the status of at most one
\* record.
C38_RunTerminates ==
    /\ (pc \in Range(GraphNodes)) ~> (pc \in { "returned", "raised" })
    /\ [](pc = "returned" => (Len(invoked) = 3 /\ Len(results) = 3))
    /\ [][ /\ (pc \in Range(GraphNodes)) => StatusChanged(rfps, rfps') = {}
           /\ (pc = END) => (pc' = "returned" /\ Cardinality(StatusChanged(rfps, rfps')) <= 1)
         ]_vars

\* A run has returned after three agent invocations
C38_Witness ==
    /\ pc = "returned"
    /\ invoked = << "sales", "bdm_review", "sme_router" >>
    /\ runs = 1

====
